---- MODULE Spec2Model ----
(***************************************************************************)
(* NeuroFi ml-service: the forecast stabilizer (PricePredictor) and the    *)
(* recommendation fusion engine (RecommendationEngine), as a state machine *)
(* of the asyncio event loop.                                              *)
(*                                                                         *)
(* Scheduling.  All coroutines run on one event loop.  A coroutine gives   *)
(* up control only where it awaits something that really suspends: in     *)
(* predict_price that is the klines fetch (data_fetcher.get_klines: a      *)
(* sleep and an HTTP round trip).  _create_model, _train_model,            *)
(* _save_model and _make_prediction are "async def" bodies without a       *)
(* suspending await (model.fit and model.predict are blocking calls), so   *)
(* everything after the fetch runs as one atomic step.                     *)
(*                                                                         *)
(* Arithmetic.  The code computes in IEEE doubles; the model uses exact    *)
(* fixed-point integers: prices in price units, confidences and scores in  *)
(* thousandths, factors in tenths, percentages in hundredths of a percent. *)
(***************************************************************************)
EXTENDS Integers, Sequences, FiniteSets, TLC

\* ------------------------------------------------------------------ bounds
NCalls == 2
MaxCalls == 2
MaxTicks == 2
MaxRecs == 1

\* requests sent through one DataFetcher, and steps of the event loop's clock
MaxRequests == 3

MaxLoopTicks == 3
RecSlots == 1

\* ------------------------------------------------------- small arithmetic
Abs(x) == IF x < 0 THEN -x ELSE x

Min(a, b) == IF a < b THEN a ELSE b

Max(a, b) == IF a > b THEN a ELSE b

\* integer quotient rounded toward zero (the model's stand-in for a float
\* quotient; exact whenever b divides a)
DivT(a, b) == IF a >= 0 THEN a \div b ELSE -((-a) \div b)

\* ------------------------------------------------- PricePredictor.__init__
\* a shorter window than the one the model was trained with
sequence_length_short == 60 - 10

sequence_length == 60

ValidTimeframes == {"1h", "4h", "1d", "7d"}

\* the 4h and 1d factors exchanged
timeframe_configs_swapped ==
    [tf \in {"1h", "4h", "1d", "7d"} |->
        CASE tf = "1h" -> 10
          [] tf = "4h" -> 4
          [] tf = "1d" -> 6
          [] tf = "7d" -> 3]

\* volatility_factor of timeframe_configs, in tenths
timeframe_configs ==
    [tf \in ValidTimeframes |->
        CASE tf = "1h" -> 10
          [] tf = "4h" -> 6
          [] tf = "1d" -> 4
          [] tf = "7d" -> 3]

\* cache_duration, in seconds
cache_duration ==
    [tf \in ValidTimeframes |->
        CASE tf = "1h" -> 2 * 60
          [] tf = "4h" -> 10 * 60
          [] tf = "1d" -> 30 * 60
          [] tf = "7d" -> 60 * 60]

\* cache_duration.get(timeframe, 300)
cache_duration_get(tf) ==
    IF tf \in DOMAIN cache_duration THEN cache_duration[tf] ELSE 300

\* config.get('volatility_factor', 1.0)
volatility_factor(tf) ==
    IF tf \in DOMAIN timeframe_configs THEN timeframe_configs[tf] ELSE 10

\* ---------------------------------------------------------------- inputs
\* the two PricePredictor objects of the process: the module-level one of
\* api/main.py and the one RecommendationEngine constructs for itself
Insts == {"api", "engine"}

Symbols == {"BTCUSDT"}

\* timeframes a caller may pass: the supported ones and an unsupported one
Timeframes == ValidTimeframes \cup {"2h"}

CacheKeys == Symbols \X ValidTimeframes

\* the correlation of two series whose indexes share no label (the closes
\* are indexed by timestamp, range(10) by position): not a number
NaN == -1

\* what one klines fetch yields: the number of bars, the last close, the
\* coefficient of variation of the last 20 closes (thousandths) and the
\* absolute correlation of the last 10 closes with time (thousandths)
MarketSamples ==
    { [bars |-> 200, close |-> 1000, vol |-> 10,  corr |-> NaN],
      [bars |-> 200, close |-> 2000, vol |-> 150, corr |-> 0],
      [bars |-> 60,  close |-> 1000, vol |-> 50,  corr |-> 500],
      [bars |-> 59,  close |-> 1000, vol |-> 50,  corr |-> 500],
      [bars |-> 0,   close |-> 0,    vol |-> 0,   corr |-> 0] }

NoSample == [bars |-> -1, close |-> 0, vol |-> 0, corr |-> 0]

\* what a klines fetch can do: raise (NoSample) or return bars
FetchOutcomes == MarketSamples \cup {NoSample}

\* the model capability's answer after the inverse scaling: an absolute
\* price, or -1 when model.predict (or the scaler) raises
ModelOutputs == {1500, -1}

UnusedModelOutput == CHOOSE m \in ModelOutputs : m # -1

\* whether model.fit succeeds when a model has to be trained
FitOutcomes == {TRUE, FALSE}

\* time steps of the wall clock, in seconds
TickSteps == {60, 540, 1800}

\* ------------------------------------------------------------ data shapes
NoRecord == [present |-> FALSE]

NoEntry == [present |-> FALSE]

\* the f-string cache_key / model_key "{symbol}_{timeframe}"
cache_key(symbol, tf) == <<symbol, tf>>

\* the outcome of one predict_price call, with what the call observed:
\*   status  "ok" | "error";  error: which raise ended the call
\*   rec     the dictionary returned
\*   how     "cached" (line 341) | "computed" (line 421) | "none"
\*   invoked whether model.predict was called
\*   raw     the inverse-scaled model prediction (line 372)
\*   cand    the dampened price (line 384)
\*   prev    the cached predicted_price the blend used (-1: none)
\*   time    current_time of the call (line 333)
NoOutcome ==
    [status |-> "none", error |-> "none", rec |-> NoRecord, how |-> "none",
     invoked |-> FALSE, raw |-> -1, cand |-> -1, prev |-> -1, time |-> -1]

Failure(kind, invoked, t) ==
    [NoOutcome EXCEPT !.status = "error", !.error = kind,
                      !.invoked = invoked, !.time = t]

\* ------------------------------------------- PricePredictor: pure helpers
\* rows left by _prepare_features: the 50-period average leaves the first
\* 49 rows NaN and dropna() removes them
prepare_features(bars) == Max(0, bars - 49)

\* number of training sequences built by _prepare_training_data
prepare_training_data(rows) == Max(0, rows - sequence_length)

\* _calculate_prediction_confidence, in thousandths
calculate_prediction_confidence(sample) ==
    LET rows == prepare_features(sample.bars)
        c0 == 700
        c1 == IF rows >= 200 THEN c0 + 100
              ELSE IF rows < 100 THEN c0 - 200 ELSE c0
        c2 == IF sample.vol < 20 THEN c1 + 100
              ELSE IF sample.vol > 100 THEN c1 - 200 ELSE c1
        c3 == c2 + DivT((sample.corr - 500) * 2, 10)
    IN  \* min(0.95, nan) is 0.95: the comparison nan < 0.95 is false
        IF sample.corr = NaN THEN Max(100, 950)
        ELSE Max(100, Min(950, c3))

\* the boost without its cap
boost_confidence_uncapped(confidence, tf) ==
    IF tf \in {"4h", "1d", "7d"} THEN DivT(confidence * 11, 10)
    ELSE confidence

\* the boost of lines 403-404
boost_confidence(confidence, tf) ==
    IF tf \in {"4h", "1d", "7d"} THEN Min(950, DivT(confidence * 11, 10))
    ELSE confidence

\* the age comparison turned around
cache_valid_inverted(entry, tf, t) ==
    entry.present /\ (t - entry.time) > cache_duration_get(tf)

\* the age comparison made inclusive
cache_valid_inclusive(entry, tf, t) ==
    entry.present /\ (t - entry.time) <= cache_duration_get(tf)

\* line 340: the cached prediction is still valid
cache_valid(entry, tf, t) ==
    entry.present /\ (t - entry.time) < cache_duration_get(tf)

\* the factor applied as a divisor
dampened_change_amplified(raw_change, tf) ==
    DivT(raw_change * 10, volatility_factor(tf))

\* line 383: raw_change * volatility_factor
dampened_change(raw_change, tf) == DivT(raw_change * volatility_factor(tf), 10)

\* line 392, in tenths
smoothing_factor(tf) == IF tf = "1h" THEN 3 ELSE IF tf = "4h" THEN 6 ELSE 8

\* the (1 - smoothing_factor) weight left out
smooth_overshoot(prediction_actual, cached_price, tf) ==
    DivT(prediction_actual * 10 + cached_price * smoothing_factor(tf), 10)

\* line 393: the blend with the cached price
smooth(prediction_actual, cached_price, tf) ==
    DivT(prediction_actual * (10 - smoothing_factor(tf))
           + cached_price * smoothing_factor(tf), 10)

\* lines 406-416: the result dictionary
forecast_record(tf, current_price, prediction_actual, confidence) ==
    [present |-> TRUE,
     current_price |-> current_price,
     predicted_price |-> prediction_actual,
     prediction_change |-> prediction_actual - current_price,
     prediction_change_percent |->
         DivT((prediction_actual - current_price) * 10000, current_price),
     confidence |-> confidence,
     timeframe |-> tf,
     volatility_dampening |-> volatility_factor(tf)]

\* the cache dictionary replaced instead of updated
cache_store_reset(cacheI, symbol, tf, rec, t) ==
    [k \in DOMAIN cacheI |->
        IF k = cache_key(symbol, tf)
        THEN [present |-> TRUE, rec |-> rec, time |-> t]
        ELSE [present |-> FALSE]]

\* line 419: self.prediction_cache[cache_key] = (result, current_time)
cache_store(cacheI, symbol, tf, rec, t) ==
    [cacheI EXCEPT ![cache_key(symbol, tf)] =
        [present |-> TRUE, rec |-> rec, time |-> t]]

\* the handler falls back to the cached prediction when there is one
on_prediction_error_stale(cacheI, entry, kind, invoked, t) ==
    IF entry.present
    THEN [out |-> [status |-> "ok", error |-> "none", rec |-> entry.rec,
                   how |-> "cached", invoked |-> invoked, raw |-> -1,
                   cand |-> -1, prev |-> -1, time |-> t],
          cache |-> cacheI]
    ELSE [out |-> [status |-> "error", error |-> kind, rec |-> [present |-> FALSE],
                   how |-> "none", invoked |-> invoked, raw |-> -1,
                   cand |-> -1, prev |-> -1, time |-> t],
          cache |-> cacheI]

\* lines 423-425: an exception inside _make_prediction is logged and
\* raised again; the cache is not touched
on_prediction_error(cacheI, entry, kind, invoked, t) ==
    [out |-> Failure(kind, invoked, t), cache |-> cacheI]

\* _make_prediction: returns the outcome and the cache it leaves
make_prediction(cacheI, symbol, tf, sample, mout, t) ==
    LET entry == cacheI[cache_key(symbol, tf)]
    IN  IF cache_valid(entry, tf, t)
        THEN [out |-> [NoOutcome EXCEPT !.status = "ok", !.rec = entry.rec,
                                        !.how = "cached", !.time = t],
              cache |-> cacheI]
        ELSE IF prepare_features(sample.bars) < sequence_length
        THEN on_prediction_error(cacheI, entry, "reshape_failed", FALSE, t)
        ELSE IF mout = -1
        THEN on_prediction_error(cacheI, entry, "predict_failed", TRUE, t)
        ELSE
          LET current_price == sample.close
              raw_change == mout - current_price
              cand == current_price + dampened_change(raw_change, tf)
              prev == IF entry.present THEN entry.rec.predicted_price ELSE -1
              prediction_actual ==
                  IF entry.present THEN smooth(cand, prev, tf) ELSE cand
              confidence ==
                  boost_confidence(calculate_prediction_confidence(sample), tf)
              rec == forecast_record(tf, current_price, prediction_actual,
                                     confidence)
          IN  [out |-> [NoOutcome EXCEPT !.status = "ok", !.rec = rec,
                                         !.how = "computed", !.invoked = TRUE,
                                         !.raw = mout, !.cand = cand,
                                         !.prev = prev, !.time = t],
               cache |-> cache_store(cacheI, symbol, tf, rec, t)]

\* _create_model: returns "ok" or the error it raises
create_model(sample, fit) ==
    IF prepare_training_data(prepare_features(sample.bars)) < 50
    THEN "insufficient_training_data"
    ELSE IF ~fit THEN "fit_failed"
    ELSE "ok"

\* predict_price from the return of the klines fetch to its end (lines
\* 98-118 and _get_historical_data lines 132-133): one atomic step of the
\* event loop.  Returns the outcome, the cache and the loaded models.
predict_price(cacheI, modelsI, symbol, tf, fetched, fit, mout, t) ==
    LET key == cache_key(symbol, tf)
        unchanged(kind) ==
            [out |-> Failure(kind, FALSE, t),
             cache |-> cacheI, models |-> modelsI]
    IN  IF fetched = NoSample THEN unchanged("fetch_failed")
        ELSE IF fetched.bars = 0 THEN unchanged("no_data")
        ELSE IF fetched.bars < sequence_length THEN unchanged("insufficient_data")
        ELSE IF key \notin modelsI /\ create_model(fetched, fit) # "ok"
        THEN unchanged(create_model(fetched, fit))
        ELSE LET r == make_prediction(cacheI, symbol, tf, fetched, mout, t)
             IN  [out |-> r.out, cache |-> r.cache,
                  models |-> modelsI \cup {key}]

\* whether the step consults model.fit / model.predict at all: an outcome
\* that is not consulted is fixed to its first value, so that one behaviour
\* of the code is one transition
fit_consulted(modelsI, symbol, tf, fetched) ==
    /\ fetched.bars >= sequence_length
    /\ cache_key(symbol, tf) \notin modelsI
    /\ prepare_training_data(prepare_features(fetched.bars)) >= 50

predict_consulted(cacheI, modelsI, symbol, tf, fetched, fit, t) ==
    /\ fetched.bars >= sequence_length
    /\ \/ cache_key(symbol, tf) \in modelsI
       \/ create_model(fetched, fit) = "ok"
    /\ ~cache_valid(cacheI[cache_key(symbol, tf)], tf, t)
    /\ prepare_features(fetched.bars) >= sequence_length

\* --------------------------------------- RecommendationEngine.__init__
\* a fourth profile under a name the interface does not list
risk_configs_permissive ==
    [r \in {"low", "medium", "high", "extreme"} |->
        CASE r = "low" ->
               [min_confidence |-> 800, max_position_size |-> 100,
                stop_loss_percent |-> 50, take_profit_percent |-> 100,
                sentiment_weight |-> 20, technical_weight |-> 50,
                prediction_weight |-> 30]
          [] r = "medium" ->
               [min_confidence |-> 600, max_position_size |-> 200,
                stop_loss_percent |-> 80, take_profit_percent |-> 150,
                sentiment_weight |-> 30, technical_weight |-> 40,
                prediction_weight |-> 30]
          [] OTHER ->
               [min_confidence |-> 400, max_position_size |-> 300,
                stop_loss_percent |-> 120, take_profit_percent |-> 250,
                sentiment_weight |-> 40, technical_weight |-> 30,
                prediction_weight |-> 30]]

\* risk_configs: confidences and percentages in thousandths, weights in
\* hundredths
risk_configs ==
    [r \in {"low", "medium", "high"} |->
        CASE r = "low" ->
               [min_confidence |-> 800, max_position_size |-> 100,
                stop_loss_percent |-> 50, take_profit_percent |-> 100,
                sentiment_weight |-> 20, technical_weight |-> 50,
                prediction_weight |-> 30]
          [] r = "medium" ->
               [min_confidence |-> 600, max_position_size |-> 200,
                stop_loss_percent |-> 80, take_profit_percent |-> 150,
                sentiment_weight |-> 30, technical_weight |-> 40,
                prediction_weight |-> 30]
          [] r = "high" ->
               [min_confidence |-> 400, max_position_size |-> 300,
                stop_loss_percent |-> 120, take_profit_percent |-> 250,
                sentiment_weight |-> 40, technical_weight |-> 30,
                prediction_weight |-> 30]]

\* risk-level names a caller may pass: the configured ones and another one
RiskLevels == DOMAIN risk_configs \cup {"extreme"}

\* an absent value (None) and a present one
None == [some |-> FALSE]

Some(v) == [some |-> TRUE, v |-> v]

\* dict.get(name, default)
get(d, name, default) == IF name \in DOMAIN d THEN d[name] ELSE default

\* a task result as asyncio.gather(return_exceptions=True) hands it over:
\* the exception the task raised, or the value it returned
Raise(kind) == [raised |-> TRUE, kind |-> kind]

Value(v) == [raised |-> FALSE, v |-> v]

\* isinstance(result, Exception)
is_exception(r) == r.raised

\* the kind of error a result carries ("none" for a value)
kind_of(r) == IF r.raised THEN r.kind ELSE "none"

\* ------------------------------------------------------ SentimentAnalyzer
\* the compound scores (thousandths) of the texts found for a symbol
CompoundLists == { <<>>, <<800>>, <<-900>>, <<800, 0>> }

RECURSIVE SumSeq(_)
SumSeq(q) == IF q = <<>> THEN 0 ELSE Head(q) + SumSeq(Tail(q))

\* integer square root
isqrt(x) == CHOOSE r \in 0..2000 : r * r <= x /\ x < (r + 1) * (r + 1)

\* _aggregate_sentiment_results, with the empty record of analyze_sentiment
\* (lines 125-138) for no texts; scores and confidence in thousandths
aggregate_sentiment_results(compound_scores) ==
    IF compound_scores = <<>>
    THEN [sentiment_score |-> 0, sentiment_label |-> "neutral",
          confidence |-> 0, sources_analyzed |-> 0,
          positive_count |-> 0, negative_count |-> 0, neutral_count |-> 0]
    ELSE LET n == Len(compound_scores)
             avg_sentiment == DivT(SumSeq(compound_scores), n)
             variance ==
                 DivT(SumSeq([i \in 1..n |->
                         (compound_scores[i] - avg_sentiment)
                           * (compound_scores[i] - avg_sentiment)]), n)
             std_sentiment == isqrt(variance)
             positive_count ==
                 Cardinality({i \in 1..n : compound_scores[i] >= 50})
             negative_count ==
                 Cardinality({i \in 1..n : compound_scores[i] <= -50})
         IN  [sentiment_score |-> avg_sentiment,
              sentiment_label |->
                  IF avg_sentiment >= 50 THEN "positive"
                  ELSE IF avg_sentiment <= -50 THEN "negative"
                  ELSE "neutral",
              confidence |-> Max(0, 1000 - DivT(std_sentiment, 2)),
              sources_analyzed |-> n,
              positive_count |-> positive_count,
              negative_count |-> negative_count,
              neutral_count |-> n - positive_count - negative_count]

\* what the analyze_sentiment task hands to the gather: the exception of a
\* failed or timed-out text call, or the aggregated record
SentimentOutcomes ==
    { Raise("collaborator_failure"), Raise("timeout") }
      \cup { Value(aggregate_sentiment_results(q)) : q \in CompoundLists }

\* ------------------------------------------------------ TechnicalAnalyzer
\* the least number of bars analyze accepts (line 52)
min_bars == 50

\* indicator sets as _calculate_indicators returns them: the full set, or
\* the empty dictionary when the computation raised (lines 186-188)
NoIndicators == [name \in {} |-> 0]

BullishIndicators ==
    [rsi |-> 25, macd |-> 5, macd_signal |-> 2, sma_20 |-> 1050,
     sma_50 |-> 1000, bb_upper |-> 1300, bb_lower |-> 1110, stoch_k |-> 50,
     stoch_d |-> 50, adx |-> 60, adx_pos |-> 30, adx_neg |-> 10,
     volume_sma |-> 100]

MixedIndicators ==
    [rsi |-> 75, macd |-> -3, macd_signal |-> 1, sma_20 |-> 1000,
     sma_50 |-> 990, bb_upper |-> 1100, bb_lower |-> 900, stoch_k |-> 50,
     stoch_d |-> 50, adx |-> 20, adx_pos |-> 30, adx_neg |-> 10,
     volume_sma |-> 100]

\* the klines the analyzer fetched, by what the analysis reads of them:
\* the number of bars, the last close, the close ten bars back, the last
\* volume, the indicators computed from them and the levels found in them
BarSamples ==
    { [bars |-> 200, close |-> 1100, close10 |-> 1000, volume |-> 300,
       indicators |-> BullishIndicators,
       support |-> <<900, 950>>, resistance |-> <<1200>>],
      [bars |-> 168, close |-> 990, close10 |-> 1000, volume |-> 40,
       indicators |-> MixedIndicators,
       support |-> <<950>>, resistance |-> <<1050>>],
      [bars |-> 50, close |-> 1000, close10 |-> 1000, volume |-> 100,
       indicators |-> NoIndicators,
       support |-> <<>>, resistance |-> <<>>],
      [bars |-> 49, close |-> 1000, close10 |-> 1000, volume |-> 100,
       indicators |-> NoIndicators,
       support |-> <<>>, resistance |-> <<>>],
      [bars |-> 0, close |-> 0, close10 |-> 0, volume |-> 0,
       indicators |-> NoIndicators,
       support |-> <<>>, resistance |-> <<>>] }

\* the 20- and 50-period averages coincide (the last 20 closes average
\* what the last 50 do)
LevelAveragesIndicators ==
    [rsi |-> 50, macd |-> 5, macd_signal |-> 2, sma_20 |-> 1000,
     sma_50 |-> 1000, bb_upper |-> 1300, bb_lower |-> 900, stoch_k |-> 50,
     stoch_d |-> 50, adx |-> 20, adx_pos |-> 30, adx_neg |-> 10,
     volume_sma |-> 100]

\* the 20-period average lies below the 50-period average
FallingAveragesIndicators ==
    [rsi |-> 50, macd |-> -3, macd_signal |-> 1, sma_20 |-> 1000,
     sma_50 |-> 1050, bb_upper |-> 1300, bb_lower |-> 900, stoch_k |-> 50,
     stoch_d |-> 50, adx |-> 30, adx_pos |-> 10, adx_neg |-> 30,
     volume_sma |-> 100]

\* analyses that separate the conditions of _determine_time_horizon: a
\* strong (not very strong) bullish trend with one strong signal, a strong
\* sideways market with one strong signal, and a very strong sideways
\* market with two strong signals
TrendingIndicators ==
    [rsi |-> 50, macd |-> 5, macd_signal |-> 2, sma_20 |-> 1050,
     sma_50 |-> 1000, bb_upper |-> 1300, bb_lower |-> 900, stoch_k |-> 50,
     stoch_d |-> 50, adx |-> 30, adx_pos |-> 30, adx_neg |-> 10,
     volume_sma |-> 100]

RangingIndicators ==
    [rsi |-> 50, macd |-> -3, macd_signal |-> 1, sma_20 |-> 990,
     sma_50 |-> 980, bb_upper |-> 1300, bb_lower |-> 900, stoch_k |-> 50,
     stoch_d |-> 50, adx |-> 30, adx_pos |-> 10, adx_neg |-> 30,
     volume_sma |-> 100]

ChoppyIndicators ==
    [rsi |-> 50, macd |-> 5, macd_signal |-> 2, sma_20 |-> 1010,
     sma_50 |-> 1020, bb_upper |-> 1300, bb_lower |-> 900, stoch_k |-> 50,
     stoch_d |-> 50, adx |-> 60, adx_pos |-> 30, adx_neg |-> 10,
     volume_sma |-> 100]

HorizonBarSamples ==
    { [bars |-> 168, close |-> 1100, close10 |-> 1000, volume |-> 100,
       indicators |-> TrendingIndicators,
       support |-> <<950>>, resistance |-> <<1200>>],
      [bars |-> 168, close |-> 1000, close10 |-> 1000, volume |-> 100,
       indicators |-> RangingIndicators,
       support |-> <<950>>, resistance |-> <<1050>>],
      [bars |-> 168, close |-> 1000, close10 |-> 1000, volume |-> 100,
       indicators |-> ChoppyIndicators,
       support |-> <<950>>, resistance |-> <<1050>>] }

\* what get_klines hands to the analyzer
KlinesOutcomes ==
    { Raise("collaborator_failure") } \cup { Value(b) : b \in BarSamples }

\* Python truthiness of indicators.get(name): present and not zero
truthy(d, name) == name \in DOMAIN d /\ d[name] # 0

\* _generate_signals
generate_signals(df, indicators) ==
    LET current_price == df.close
        rsi == get(indicators, "rsi", 50)
        macd == get(indicators, "macd", 0)
        macd_signal == get(indicators, "macd_signal", 0)
        stoch_k == get(indicators, "stoch_k", 50)
        stoch_d == get(indicators, "stoch_d", 50)
        adx == get(indicators, "adx", 25)
        has_ma == truthy(indicators, "sma_20") /\ truthy(indicators, "sma_50")
        has_bb == truthy(indicators, "bb_upper")
                    /\ truthy(indicators, "bb_lower")
        has_vol == truthy(indicators, "volume_sma")
        base ==
            [rsi |-> IF rsi > 70 THEN "overbought"
                     ELSE IF rsi < 30 THEN "oversold" ELSE "neutral",
             macd |-> IF macd > macd_signal THEN "bullish" ELSE "bearish",
             stochastic |->
                 IF stoch_k > 80 /\ stoch_d > 80 THEN "overbought"
                 ELSE IF stoch_k < 20 /\ stoch_d < 20 THEN "oversold"
                 ELSE "neutral",
             trend_strength |->
                 IF adx > 50 THEN "very_strong"
                 ELSE IF adx > 25 THEN "strong" ELSE "weak",
             volume |->
                 IF has_vol /\ df.volume * 10 > indicators.volume_sma * 15
                 THEN "high"
                 ELSE IF has_vol /\ df.volume * 10 < indicators.volume_sma * 5
                 THEN "low" ELSE "normal"]
        ma == IF has_ma
              THEN LET sma_20 == indicators.sma_20
                       sma_50 == indicators.sma_50
                   IN  [ma_trend |->
                          IF current_price > sma_20 /\ sma_20 > sma_50
                          THEN "strong_bullish"
                          ELSE IF current_price > sma_20 /\ sma_20 < sma_50
                          THEN "weak_bullish"
                          ELSE IF current_price < sma_20 /\ sma_20 < sma_50
                          THEN "strong_bearish"
                          ELSE "weak_bearish"]
              ELSE NoIndicators
        bb == IF has_bb
              THEN [bollinger |->
                      IF current_price > indicators.bb_upper THEN "overbought"
                      ELSE IF current_price < indicators.bb_lower
                      THEN "oversold" ELSE "neutral"]
              ELSE NoIndicators
    IN  base @@ ma @@ bb

\* _determine_trend: the trend and its strength (thousandths)
determine_trend(df, indicators) ==
    LET current_price == df.close
        has_ma == truthy(indicators, "sma_20") /\ truthy(indicators, "sma_50")
        ma_score ==
            IF has_ma
            THEN (IF current_price > indicators.sma_20 THEN 1 ELSE -1)
                 + (IF indicators.sma_20 > indicators.sma_50 THEN 1 ELSE -1)
            ELSE 0
        ma_factors == IF has_ma THEN 2 ELSE 0
        macd_score ==
            IF get(indicators, "macd", 0) > get(indicators, "macd_signal", 0)
            THEN 1 ELSE -1
        adx_score ==
            IF get(indicators, "adx_pos", 25) > get(indicators, "adx_neg", 25)
            THEN 1 ELSE -1
        has_momentum == df.bars >= 10
        change == (current_price - df.close10) * 100
        momentum_score ==
            IF has_momentum /\ change > 2 * df.close10 THEN 1
            ELSE IF has_momentum /\ change < -2 * df.close10 THEN -1
            ELSE 0
        trend_score == ma_score + macd_score + adx_score + momentum_score
        factors == ma_factors + 1 + 1 + (IF has_momentum THEN 1 ELSE 0)
    IN  IF factors > 0
        THEN [trend |-> IF trend_score * 10 > 6 * factors THEN "bullish"
                        ELSE IF trend_score * 10 < -6 * factors THEN "bearish"
                        ELSE "sideways",
              strength |-> DivT(Abs(trend_score) * 1000, factors)]
        ELSE [trend |-> "unknown", strength |-> 0]

\* analyze: what the task hands to the gather for the klines it fetched.
\* An empty klines list makes _get_historical_data fail on the missing
\* openTime column (lines 104-105) before the length check of line 52.
analyze(klines) ==
    IF is_exception(klines) THEN klines
    ELSE LET df == klines.v
         IN  IF df.bars = 0 THEN Raise("key_error")
             ELSE IF df.bars < min_bars THEN Raise("insufficient_data")
             ELSE LET indicators == df.indicators
                      t == determine_trend(df, indicators)
                  IN  Value([indicators |-> indicators,
                             signals |-> generate_signals(df, indicators),
                             support_levels |-> df.support,
                             resistance_levels |-> df.resistance,
                             trend |-> t.trend,
                             strength |-> t.strength])

\* what the analyze task hands to the gather
TechnicalOutcomes == { analyze(k) : k \in KlinesOutcomes }

\* what get_current_price hands to the gather
PriceOutcomes ==
    { Raise("collaborator_failure"), Value([price |-> 0]),
      Value([price |-> 1000]) }

\* what get_ticker_24hr hands to the gather: an exception, an empty list,
\* a list with one ticker
TickerOutcomes ==
    { Raise("timeout"), Value(<<>>), Value(<<[price |-> 1000]>>) }

\* ------------------------------------ RecommendationEngine: pure helpers
\* np.tanh on thousandths, by linear interpolation between exact values
TanhKnots ==
    << <<0, 0>>, <<250, 245>>, <<500, 462>>, <<750, 635>>, <<1000, 762>>,
       <<1500, 905>>, <<2000, 964>>, <<3000, 995>>, <<5000, 1000>> >>

tanh(x) ==
    LET a == Abs(x)
        sgn == IF x < 0 THEN -1 ELSE 1
        n == Len(TanhKnots)
    IN  IF a >= TanhKnots[n][1] THEN sgn * TanhKnots[n][2]
        ELSE LET j == CHOOSE k \in 1..(n - 1) :
                          TanhKnots[k][1] <= a /\ a < TanhKnots[k + 1][1]
                 x0 == TanhKnots[j][1]
                 y0 == TanhKnots[j][2]
                 x1 == TanhKnots[j + 1][1]
                 y1 == TanhKnots[j + 1][2]
             IN  sgn * (y0 + ((a - x0) * (y1 - y0)) \div (x1 - x0))

\* lines 127-131: an exception among the gathered results becomes None
absent_if_exception(r) == IF is_exception(r) THEN None ELSE Some(r.v)

\* a timed-out sentiment call answered with the neutral record
gather_analysis_data_neutral(sentiment, pred, technical, price, ticker) ==
    [sentiment |-> IF is_exception(sentiment) /\ sentiment.kind = "timeout"
                   THEN Some(aggregate_sentiment_results(<<>>))
                   ELSE absent_if_exception(sentiment),
     prediction |-> IF pred.status = "ok" THEN Some(pred.rec) ELSE None,
     technical |-> absent_if_exception(technical),
     price |-> absent_if_exception(price),
     ticker |-> IF ~is_exception(ticker) /\ Len(ticker.v) > 0
                THEN Some(ticker.v[1]) ELSE None]

\* lines 133-139: the analysis data built from the gathered results
gather_analysis_data(sentiment, pred, technical, price, ticker) ==
    [sentiment |-> absent_if_exception(sentiment),
     prediction |-> IF pred.status = "ok" THEN Some(pred.rec) ELSE None,
     technical |-> absent_if_exception(technical),
     price |-> absent_if_exception(price),
     ticker |-> IF ~is_exception(ticker) /\ Len(ticker.v) > 0
                THEN Some(ticker.v[1]) ELSE None]

\* _calculate_technical_score with the volume adjustment on every non-zero
\* running sum
calculate_technical_score_nonzero(technical_data) ==
    LET signals == technical_data.signals
        rsi == get(signals, "rsi", "neutral")
        s1 == IF rsi = "oversold" THEN 3
              ELSE IF rsi = "overbought" THEN -3 ELSE 0
        macd == get(signals, "macd", "neutral")
        s2 == IF macd = "bullish" THEN s1 + 2
              ELSE IF macd = "bearish" THEN s1 - 2 ELSE s1
        ma_trend == get(signals, "ma_trend", "neutral")
        s3 == CASE ma_trend = "strong_bullish" -> s2 + 4
                [] ma_trend = "weak_bullish" -> s2 + 2
                [] ma_trend = "weak_bearish" -> s2 - 2
                [] ma_trend = "strong_bearish" -> s2 - 4
                [] OTHER -> s2
        bb == get(signals, "bollinger", "neutral")
        s4 == IF bb = "oversold" THEN s3 + 2
              ELSE IF bb = "overbought" THEN s3 - 2 ELSE s3
        trend_strength == get(signals, "trend_strength", "weak")
        trend == technical_data.trend
        s5 == IF trend = "bullish" /\ trend_strength \in {"strong", "very_strong"}
              THEN s4 + 3
              ELSE IF trend = "bearish"
                      /\ trend_strength \in {"strong", "very_strong"}
              THEN s4 - 3 ELSE s4
        factors == 5
        volume == get(signals, "volume", "normal")
        score == IF volume = "high" /\ s5 # 0 THEN s5 + 1
                 ELSE IF volume = "low" /\ s5 # 0 THEN s5 - 1 ELSE s5
    IN  IF factors > 0 THEN DivT(score * 100000, factors) ELSE 0

\* _calculate_technical_score, in millionths (the points are tenths)
calculate_technical_score(technical_data) ==
    LET signals == technical_data.signals
        rsi == get(signals, "rsi", "neutral")
        s1 == IF rsi = "oversold" THEN 3
              ELSE IF rsi = "overbought" THEN -3 ELSE 0
        macd == get(signals, "macd", "neutral")
        s2 == IF macd = "bullish" THEN s1 + 2
              ELSE IF macd = "bearish" THEN s1 - 2 ELSE s1
        ma_trend == get(signals, "ma_trend", "neutral")
        s3 == CASE ma_trend = "strong_bullish" -> s2 + 4
                [] ma_trend = "weak_bullish" -> s2 + 2
                [] ma_trend = "weak_bearish" -> s2 - 2
                [] ma_trend = "strong_bearish" -> s2 - 4
                [] OTHER -> s2
        bb == get(signals, "bollinger", "neutral")
        s4 == IF bb = "oversold" THEN s3 + 2
              ELSE IF bb = "overbought" THEN s3 - 2 ELSE s3
        trend_strength == get(signals, "trend_strength", "weak")
        trend == technical_data.trend
        s5 == IF trend = "bullish" /\ trend_strength \in {"strong", "very_strong"}
              THEN s4 + 3
              ELSE IF trend = "bearish"
                      /\ trend_strength \in {"strong", "very_strong"}
              THEN s4 - 3 ELSE s4
        factors == 5
        volume == get(signals, "volume", "normal")
        score == IF volume = "high" /\ s5 > 0 THEN s5 + 1
                 ELSE IF volume = "low" /\ s5 > 0 THEN s5 - 1 ELSE s5
    IN  IF factors > 0 THEN DivT(score * 100000, factors) ELSE 0

\* _calculate_prediction_score, in millionths
calculate_prediction_score(prediction_data) ==
    tanh(prediction_data.prediction_change_percent) * prediction_data.confidence

\* a neutral 0.5 instead of 0.0 as the sentiment default
initial_scores_biased ==
    [sentiment_score |-> 500000, technical_score |-> 0,
     prediction_score |-> 0, overall_score |-> 0]

\* lines 149-154: the scores every component starts from
initial_scores ==
    [sentiment_score |-> 0, technical_score |-> 0,
     prediction_score |-> 0, overall_score |-> 0]

\* _calculate_recommendation_scores with every weight taken as 1.0
calculate_recommendation_scores_unweighted(analysis_data, config) ==
    LET sentiment_score ==
            IF analysis_data.sentiment.some
            THEN analysis_data.sentiment.v.sentiment_score
                   * analysis_data.sentiment.v.confidence
            ELSE initial_scores.sentiment_score
        technical_score ==
            IF analysis_data.technical.some
            THEN calculate_technical_score(analysis_data.technical.v)
            ELSE initial_scores.technical_score
        prediction_score ==
            IF analysis_data.prediction.some
            THEN calculate_prediction_score(analysis_data.prediction.v)
            ELSE initial_scores.prediction_score
    IN  [sentiment_score |-> sentiment_score,
         technical_score |-> technical_score,
         prediction_score |-> prediction_score,
         overall_score |-> sentiment_score * 100
                             + technical_score * 100
                             + prediction_score * 100]

\* _calculate_recommendation_scores: component scores in millionths,
\* overall_score in hundred-millionths
calculate_recommendation_scores(analysis_data, config) ==
    LET sentiment_score ==
            IF analysis_data.sentiment.some
            THEN analysis_data.sentiment.v.sentiment_score
                   * analysis_data.sentiment.v.confidence
            ELSE initial_scores.sentiment_score
        technical_score ==
            IF analysis_data.technical.some
            THEN calculate_technical_score(analysis_data.technical.v)
            ELSE initial_scores.technical_score
        prediction_score ==
            IF analysis_data.prediction.some
            THEN calculate_prediction_score(analysis_data.prediction.v)
            ELSE initial_scores.prediction_score
    IN  [sentiment_score |-> sentiment_score,
         technical_score |-> technical_score,
         prediction_score |-> prediction_score,
         overall_score |-> sentiment_score * config.sentiment_weight
                             + technical_score * config.technical_weight
                             + prediction_score * config.prediction_weight]

\* _determine_time_horizon with the sentiment condition as confidence >= 0.8
determine_time_horizon_inclusive(analysis_data) ==
    LET tech == analysis_data.technical
        h1 == IF tech.some
                 /\ get(tech.v.signals, "trend_strength", "weak")
                        \in {"strong", "very_strong"}
                 /\ tech.v.trend # "sideways"
              THEN "medium-term" ELSE "short-term"
        strong_signals ==
            IF tech.some
            THEN Cardinality({n \in DOMAIN tech.v.signals :
                    tech.v.signals[n] \in
                        {"strong_bullish", "strong_bearish", "very_strong"}})
            ELSE 0
        h2 == IF strong_signals >= 2 THEN "medium-term" ELSE h1
    IN  IF analysis_data.sentiment.some
           /\ analysis_data.sentiment.v.confidence >= 800
        THEN "medium-term" ELSE h2

\* _determine_time_horizon
determine_time_horizon(analysis_data) ==
    LET tech == analysis_data.technical
        h1 == IF tech.some
                 /\ get(tech.v.signals, "trend_strength", "weak")
                        \in {"strong", "very_strong"}
                 /\ tech.v.trend # "sideways"
              THEN "medium-term" ELSE "short-term"
        strong_signals ==
            IF tech.some
            THEN Cardinality({n \in DOMAIN tech.v.signals :
                    tech.v.signals[n] \in
                        {"strong_bullish", "strong_bearish", "very_strong"}})
            ELSE 0
        h2 == IF strong_signals >= 2 THEN "medium-term" ELSE h1
    IN  IF analysis_data.sentiment.some
           /\ analysis_data.sentiment.v.confidence > 800
        THEN "medium-term" ELSE h2

\* _calculate_risk_reward_ratio with risk over reward
calculate_risk_reward_ratio_inverted(current_price, target_price, stop_loss) ==
    LET potential_reward == Abs(target_price - current_price)
        potential_risk == Abs(current_price - stop_loss)
    IN  IF potential_risk = 0 THEN None
        ELSE Some(DivT(potential_risk * 1000, potential_reward))

\* _calculate_risk_reward_ratio, in thousandths
calculate_risk_reward_ratio(current_price, target_price, stop_loss) ==
    LET potential_reward == Abs(target_price - current_price)
        potential_risk == Abs(current_price - stop_loss)
    IN  IF potential_risk = 0 THEN None
        ELSE Some(DivT(potential_reward * 1000, potential_risk))

\* the threshold comparisons made inclusive
decide_action_inclusive(overall_score) ==
    IF overall_score >= 30000000 THEN "buy"
    ELSE IF overall_score <= -30000000 THEN "sell" ELSE "hold"

\* lines 274-281: the action the overall score (hundred-millionths) decides
decide_action(overall_score) ==
    IF overall_score > 30000000 THEN "buy"
    ELSE IF overall_score < -30000000 THEN "sell" ELSE "hold"

\* the minimum-confidence check left out
below_min_confidence_never(confidence, config) == FALSE

\* line 287: confidence (hundred-millionths) against the profile's
\* min_confidence (thousandths)
below_min_confidence(confidence, config) ==
    confidence < config.min_confidence * 100000

\* absent targets defaulted to zero
price_targets_defaulted(action, current_price, config) ==
    IF action = "buy" /\ current_price.some /\ current_price.v # 0
    THEN [target_price |->
              Some(DivT(current_price.v * (1000 + config.take_profit_percent),
                        1000)),
          stop_loss |->
              Some(DivT(current_price.v * (1000 - config.stop_loss_percent),
                        1000))]
    ELSE IF action = "sell" /\ current_price.some /\ current_price.v # 0
    THEN [target_price |->
              Some(DivT(current_price.v * (1000 - config.take_profit_percent),
                        1000)),
          stop_loss |->
              Some(DivT(current_price.v * (1000 + config.stop_loss_percent),
                        1000))]
    ELSE [target_price |-> Some(0), stop_loss |-> Some(0)]

\* lines 297-306: target price and stop loss; "and current_price" is false
\* for None and for a price of zero
price_targets(action, current_price, config) ==
    IF action = "buy" /\ current_price.some /\ current_price.v # 0
    THEN [target_price |->
              Some(DivT(current_price.v * (1000 + config.take_profit_percent),
                        1000)),
          stop_loss |->
              Some(DivT(current_price.v * (1000 - config.stop_loss_percent),
                        1000))]
    ELSE IF action = "sell" /\ current_price.some /\ current_price.v # 0
    THEN [target_price |->
              Some(DivT(current_price.v * (1000 - config.take_profit_percent),
                        1000)),
          stop_loss |->
              Some(DivT(current_price.v * (1000 + config.stop_loss_percent),
                        1000))]
    ELSE [target_price |-> None, stop_loss |-> None]

\* _generate_final_recommendation (the reasoning text is left out);
\* confidence in hundred-millionths; decided is the action of lines 274-281,
\* before the minimum-confidence check
generate_final_recommendation(analysis_data, scores, config) ==
    LET overall_score == scores.overall_score
        action0 == decide_action(overall_score)
        confidence0 == Min(95000000, Abs(overall_score) + 10000000)
        low == below_min_confidence(confidence0, config)
        action == IF low THEN "hold" ELSE action0
        confidence == IF low THEN 50000000 ELSE confidence0
        current_price ==
            IF analysis_data.price.some
            THEN Some(analysis_data.price.v.price) ELSE None
        targets == price_targets(action, current_price, config)
        target_price == targets.target_price
        stop_loss == targets.stop_loss
    IN  [present |-> TRUE,
         decided |-> action0,
         action |-> action,
         confidence |-> confidence,
         target_price |-> target_price,
         stop_loss |-> stop_loss,
         time_horizon |-> determine_time_horizon(analysis_data),
         scores |-> scores,
         risk_reward_ratio |->
             IF current_price.some /\ current_price.v # 0
                /\ target_price.some /\ target_price.v # 0
                /\ stop_loss.some /\ stop_loss.v # 0
             THEN calculate_risk_reward_ratio(current_price.v, target_price.v,
                                              stop_loss.v)
             ELSE None]

\* ------------------------------------------------------------------ state
VARIABLES
    now,               \* the wall clock (datetime.utcnow), seconds
    prediction_cache,  \* per PricePredictor: cache key -> entry
    models,            \* per PricePredictor: the keys with a loaded model
    call,              \* the request slots: idle, or awaiting the klines fetch
    last,              \* the response most recently handed to a caller
    ncalls,            \* number of requests issued so far
    nticks,            \* number of clock steps taken so far
    writes,            \* history: per predictor and key, the times at which
                       \* a request of that key changed the cache
    nrecs,             \* number of recommendation requests issued so far
    fetcher            \* one DataFetcher: its last_request_time, the event
                       \* loop's clock (ms), the requests inside _rate_limit
                       \* and the moments at which requests left it

vars ==
    <<now, prediction_cache, models, call, last, ncalls, nticks, writes, nrecs,
      fetcher>>

Calls == 1..NCalls

\* a request slot: pc is "idle", "fetching" (predict_price awaits its
\* klines) or "gathering" (a recommendation whose forecast task is done and
\* whose other gathered tasks are still awaited); risk is "none" for a
\* direct forecast request; pred is the forecast task's result
IdleCall ==
    [pc |-> "idle", inst |-> "api", symbol |-> "BTCUSDT", timeframe |-> "1d",
     risk |-> "none", pred |-> NoOutcome]

\* what the step consumed from its collaborators
NoInput == [bars |-> -1, fit |-> TRUE, mout |-> UnusedModelOutput]

NoData ==
    [sentiment |-> None, prediction |-> None, technical |-> None,
     price |-> None, ticker |-> None]

NoRecommendation == [present |-> FALSE]

\* the error kinds of the five gathered results ("none" for a value)
NoRaised ==
    [sentiment |-> "none", prediction |-> "none", technical |-> "none",
     price |-> "none", ticker |-> "none"]

\* op is "forecast" (predict_price ended: inp and out say how) or
\* "recommend" (generate_recommendation ended: risk, data and reco say how,
\* out.status is "ok" or "error", klines is what the technical analyzer
\* fetched and raised is how each gathered task ended)
NoResponse ==
    [op |-> "none", slot |-> 0, inst |-> "api", symbol |-> "BTCUSDT",
     timeframe |-> "1d", inp |-> NoInput, out |-> NoOutcome,
     risk |-> "none", data |-> NoData, reco |-> NoRecommendation,
     klines |-> Raise("none"), raised |-> NoRaised]

\* the models found on disk by _load_existing_models (both predictors read
\* the same directory at start-up): one key has a saved model, the others
\* are trained on first use
Preloaded == {<<"BTCUSDT", "4h">>}

\* DataFetcher.__init__ (lines 19-21), in milliseconds
rate_limit_delay == 100

\* the requests that can be inside one DataFetcher at a time
Requests == 1..MaxRequests

\* the clock of the event loop when the service starts (monotonic, ms)
loop_start == 1000

NewFetcher ==
    [last_request_time |-> 0,
     time |-> loop_start,
     wake |-> [q \in Requests |-> -1],
     passed |-> <<>>,
     entered |-> 0,
     ticks |-> 0]

Init ==
    /\ now = 0
    /\ prediction_cache = [i \in Insts |-> [k \in CacheKeys |-> NoEntry]]
    /\ models = [i \in Insts |-> Preloaded]
    /\ call = [c \in Calls |-> IdleCall]
    /\ last = NoResponse
    /\ ncalls = 0
    /\ nticks = 0
    /\ writes = [i \in Insts |-> [k \in CacheKeys |-> <<>>]]
    /\ nrecs = 0
    /\ fetcher = NewFetcher

\* a request takes the first free request slot (the slots are
\* interchangeable)
FreeSlot(c) ==
    /\ call[c].pc = "idle"
    /\ \A d \in Calls : d < c => call[d].pc # "idle"

\* GET /predictions: price_predictor.predict_price(symbol, timeframe) up to
\* the await of the klines fetch (lines 91-98)
GetForecast(c, symbol, tf) ==
    /\ FreeSlot(c)
    /\ ncalls < MaxCalls
    /\ ncalls' = ncalls + 1
    /\ IF tf \notin DOMAIN timeframe_configs
       THEN /\ last' = [NoResponse EXCEPT
                        !.op = "forecast", !.slot = c, !.symbol = symbol,
                        !.timeframe = tf,
                        !.out = Failure("unsupported_timeframe", FALSE, now)]
            /\ call' = call
       ELSE /\ call' = [call EXCEPT ![c] =
                [IdleCall EXCEPT !.pc = "fetching", !.symbol = symbol,
                                 !.timeframe = tf]]
            /\ last' = last
    /\ UNCHANGED <<fetcher, now, prediction_cache, models, nticks, writes, nrecs>>

\* the klines fetch of request c completes and predict_price runs to its
\* end, handing its result (or its exception) to the caller
FetchReturn(c, fetched, fit, mout) ==
    /\ call[c].pc = "fetching"
    /\ LET i == call[c].inst
           s == call[c].symbol
           tf == call[c].timeframe
           r == predict_price(prediction_cache[i], models[i], s, tf,
                              fetched, fit, mout, now)
       IN  /\ fit_consulted(models[i], s, tf, fetched) \/ fit = TRUE
           /\ \/ predict_consulted(prediction_cache[i], models[i], s, tf,
                                    fetched, fit, now)
              \/ mout = UnusedModelOutput
           /\ prediction_cache' = [prediction_cache EXCEPT ![i] = r.cache]
           /\ models' = [models EXCEPT ![i] = r.models]
           /\ writes' = IF r.cache # prediction_cache[i]
                         THEN [writes EXCEPT ![i][<<s, tf>>] = Append(@, now)]
                         ELSE writes
           /\ last' = [NoResponse EXCEPT
                       !.op = "forecast", !.slot = c, !.inst = i,
                       !.symbol = s, !.timeframe = tf,
                       !.inp = [bars |-> fetched.bars, fit |-> fit,
                                mout |-> mout],
                       !.out = r.out, !.risk = call[c].risk]
           /\ call' = IF call[c].risk = "none"
                       THEN [call EXCEPT ![c] = IdleCall]
                       ELSE [call EXCEPT ![c].pc = "gathering",
                                         ![c].pred = r.out]
    /\ UNCHANGED <<fetcher, now, ncalls, nticks, nrecs>>

\* GET /recommendations: generate_recommendation(symbol, risk_level) up to
\* the await of the gather (lines 89-96, 116-124); the forecast task runs
\* predict_price(symbol, "1d") on the engine's own predictor up to its fetch
Recommend(c, symbol, risk) ==
    /\ FreeSlot(c)
    /\ nrecs < MaxRecs
    /\ Cardinality({d \in Calls : call[d].pc # "idle" /\ call[d].risk # "none"})
         < RecSlots
    /\ nrecs' = nrecs + 1
    /\ IF risk \notin DOMAIN risk_configs
       THEN /\ last' = [NoResponse EXCEPT
                        !.op = "recommend", !.slot = c, !.inst = "engine",
                        !.symbol = symbol, !.risk = risk,
                        !.out = Failure("invalid_risk_level", FALSE, now)]
            /\ call' = call
       ELSE /\ call' = [call EXCEPT ![c] =
                [IdleCall EXCEPT !.pc = "fetching", !.inst = "engine",
                                 !.symbol = symbol, !.timeframe = "1d",
                                 !.risk = risk]]
            /\ last' = last
    /\ UNCHANGED <<fetcher, now, prediction_cache, models, ncalls, nticks, writes>>

\* the last of the gathered tasks of request c completes: the gather
\* returns the five results (exceptions as values) and
\* generate_recommendation runs to its end (lines 124-139, 98-106)
GatherJoin(c, sentiment, klines, price, ticker) ==
    /\ call[c].pc = "gathering"
    /\ LET config == risk_configs[call[c].risk]
           technical == analyze(klines)
           data == gather_analysis_data(sentiment, call[c].pred, technical,
                                        price, ticker)
           scores == calculate_recommendation_scores(data, config)
       IN  last' = [NoResponse EXCEPT
                       !.op = "recommend", !.slot = c, !.inst = "engine",
                       !.symbol = call[c].symbol, !.risk = call[c].risk,
                       !.out = [NoOutcome EXCEPT !.status = "ok", !.time = now],
                       !.data = data,
                       !.reco = generate_final_recommendation(data, scores,
                                                              config),
                       !.klines = klines,
                       !.raised =
                           [sentiment |-> kind_of(sentiment),
                            prediction |->
                                IF call[c].pred.status = "ok" THEN "none"
                                ELSE call[c].pred.error,
                            technical |-> kind_of(technical),
                            price |-> kind_of(price),
                            ticker |-> kind_of(ticker)]]
    /\ call' = [call EXCEPT ![c] = IdleCall]
    /\ UNCHANGED <<fetcher, now, prediction_cache, models, ncalls, nticks, writes,
                   nrecs>>

\* time passes
Tick(d) ==
    /\ nticks < MaxTicks
    /\ nticks' = nticks + 1
    /\ now' = now + d
    /\ UNCHANGED <<fetcher, prediction_cache, models, call, last, ncalls, writes, nrecs>>

Next ==
    \/ \E c \in Calls, s \in Symbols, tf \in Timeframes : GetForecast(c, s, tf)
    \/ \E c \in Calls, f \in FetchOutcomes, fit \in FitOutcomes,
          m \in ModelOutputs : FetchReturn(c, f, fit, m)
    \/ \E d \in TickSteps : Tick(d)

\* the service under forecast requests
Spec == Init /\ [][Next]_vars

NextReco ==
    \/ \E c \in Calls, s \in Symbols, r \in RiskLevels : Recommend(c, s, r)
    \/ \E c \in Calls, f \in FetchOutcomes, fit \in FitOutcomes,
          m \in ModelOutputs : FetchReturn(c, f, fit, m)
    \/ \E c \in Calls, se \in SentimentOutcomes, k \in KlinesOutcomes,
          pr \in PriceOutcomes, ti \in TickerOutcomes :
              GatherJoin(c, se, k, pr, ti)
    \/ \E d \in TickSteps : Tick(d)

\* the service under recommendation requests
SpecReco == Init /\ [][NextReco]_vars

\* the same service when every awaited call completes: the klines fetch of
\* a forecast (with a value or an exception) and the gathered tasks of a
\* recommendation (each with a value, a failure or a timeout); one value
\* per gathered task is enough to tell completion from its absence
LiveSentimentOutcomes ==
    {r \in SentimentOutcomes : is_exception(r) \/ r.v.sentiment_score > 0}

LiveKlinesOutcomes ==
    {k \in KlinesOutcomes : is_exception(k) \/ k.v.bars = 200}

LivePriceOutcomes == {r \in PriceOutcomes : is_exception(r) \/ r.v.price # 0}

LiveTickerOutcomes == {r \in TickerOutcomes : is_exception(r) \/ r.v # <<>>}

LiveFetchOutcomes == {f \in FetchOutcomes : f = NoSample \/ f.bars = 200}

FetchCompletes(c) ==
    /\ call[c].pc = "fetching"
    /\ \E f \in LiveFetchOutcomes, m \in ModelOutputs :
           FetchReturn(c, f, TRUE, m)

GatherCompletes(c) ==
    /\ call[c].pc = "gathering"
    /\ \E se \in LiveSentimentOutcomes, k \in LiveKlinesOutcomes,
          pr \in LivePriceOutcomes, ti \in LiveTickerOutcomes :
              GatherJoin(c, se, k, pr, ti)

\* the clock step that outlasts the validity window of the forecast used
LiveTickSteps == {d \in TickSteps : d >= cache_duration_get("1d")}

NextRecoLive ==
    \/ \E c \in Calls, s \in Symbols, r \in RiskLevels : Recommend(c, s, r)
    \/ \E c \in Calls : FetchCompletes(c)
    \/ \E c \in Calls : GatherCompletes(c)
    \/ \E d \in LiveTickSteps : Tick(d)

SpecRecoLive ==
    /\ Init /\ [][NextRecoLive]_vars
    /\ \A c \in Calls : WF_vars(FetchCompletes(c)) /\ WF_vars(GatherCompletes(c))

\* ------------------------------------------- the fusion's last step alone
\* overall scores (hundred-millionths) handed to
\* _generate_final_recommendation
OverallScores ==
    { -90000000, -36000000, -30000001, -30000000, 0, 25000000, 30000000,
      30000001, 50000000, 70000000, 120000000 }

\* _generate_final_recommendation(symbol, analysis_data, scores, config)
\* applied once to analysis data and scores of the caller's choice (the
\* function reads and writes no state of the engine)
Finalize(sentiment, technical, price, overall_score, risk) ==
    /\ last.op = "none"
    /\ LET config == risk_configs[risk]
           data == gather_analysis_data(sentiment, NoOutcome, technical,
                                        price, Raise("collaborator_failure"))
           scores == [initial_scores EXCEPT !.overall_score = overall_score]
       IN  last' = [NoResponse EXCEPT
                       !.op = "finalize", !.inst = "engine", !.risk = risk,
                       !.out = [NoOutcome EXCEPT !.status = "ok", !.time = now],
                       !.data = data,
                       !.reco = generate_final_recommendation(data, scores,
                                                              config)]
    /\ UNCHANGED <<fetcher, now, prediction_cache, models, call, ncalls, nticks,
                   writes, nrecs>>

\* the technical results handed to _generate_final_recommendation
FinalTechnicalOutcomes ==
    TechnicalOutcomes \cup {analyze(Value(b)) : b \in HorizonBarSamples}

\* the prices handed to _generate_final_recommendation
FinalPriceOutcomes == PriceOutcomes \cup { Value([price |-> 25000]) }

NextFinal ==
    \E se \in SentimentOutcomes, te \in FinalTechnicalOutcomes,
       pr \in FinalPriceOutcomes, o \in OverallScores, r \in DOMAIN risk_configs :
           Finalize(se, te, pr, o, r)

SpecFinal == Init /\ [][NextFinal]_vars

\* --------------------------------------------- technical analysis alone
\* the klines a technical analysis may be run on
AnalyzeInputs ==
    { Raise("collaborator_failure") }
      \cup { Value([bars |-> b, close |-> c, close10 |-> 1000, volume |-> v,
                    indicators |-> i, support |-> <<>>, resistance |-> <<>>]) :
               b \in {0, 9, 49, 50, 200}, c \in {950, 1000, 1100},
               v \in {40, 100, 300},
               i \in {NoIndicators, BullishIndicators, MixedIndicators,
                      LevelAveragesIndicators, FallingAveragesIndicators} }

\* GET /technical-analysis: technical_analyzer.analyze(symbol, ...),
\* applied once (the analyzer keeps no state between calls)
Analyze(klines) ==
    /\ last.op = "none"
    /\ LET technical == analyze(klines)
       IN  last' = [NoResponse EXCEPT
                       !.op = "analyze", !.klines = klines,
                       !.out = IF is_exception(technical)
                               THEN Failure(technical.kind, FALSE, now)
                               ELSE [NoOutcome EXCEPT !.status = "ok",
                                                      !.time = now],
                       !.data = [NoData EXCEPT
                                   !.technical = absent_if_exception(technical)],
                       !.raised = [NoRaised EXCEPT
                                     !.technical = kind_of(technical)]]
    /\ UNCHANGED <<fetcher, now, prediction_cache, models, call, ncalls, nticks,
                   writes, nrecs>>

\* _determine_trend(df, indicators) applied once to a frame and an
\* indicator set of the caller's choice; the response keeps the indicators
\* read and the trend and strength returned
DetermineTrend(klines) ==
    /\ last.op = "none"
    /\ ~is_exception(klines)
    /\ LET df == klines.v
           t == determine_trend(df, df.indicators)
       IN  last' = [NoResponse EXCEPT
                       !.op = "determine_trend", !.klines = klines,
                       !.out = [NoOutcome EXCEPT !.status = "ok",
                                                 !.time = now],
                       !.data = [NoData EXCEPT
                                   !.technical =
                                       Some([indicators |-> df.indicators,
                                             trend |-> t.trend,
                                             strength |-> t.strength])]]
    /\ UNCHANGED <<fetcher, now, prediction_cache, models, call, ncalls, nticks,
                   writes, nrecs>>

NextAnalyze ==
    \/ \E k \in AnalyzeInputs : Analyze(k)
    \/ \E k \in AnalyzeInputs : DetermineTrend(k)

SpecAnalyze == Init /\ [][NextAnalyze]_vars

\* ------------------------------------------- support and resistance alone
\* the window of _find_support_resistance (its default argument)
window == 20

\* a bar series by its highs and lows: a base of 1000, a drift per bar and
\* a triangle wave of the given period and slope; the low lies spread below
\* the high
Triangle(i, period) ==
    LET m == i % period
    IN  IF m <= period \div 2 THEN m ELSE period - m

BarSeries(n, period, slope, drift, spread) ==
    LET high == [i \in 1..n |-> 1000 + drift * i + slope * Triangle(i, period)]
    IN  [high |-> high, low |-> [i \in 1..n |-> high[i] - spread]]

SeriesLengths == {30, 41, 60, 130}

SeriesPeriods == {12, 24, 30}

SeriesSlopes == {0, 3, 10}

SeriesDrifts == {-5, -1, 0, 1, 5}

SeriesSpreads == {0, 10}

LevelInputs ==
    { BarSeries(n, p, s, d, w) :
        n \in SeriesLengths, p \in SeriesPeriods, s \in SeriesSlopes,
        d \in SeriesDrifts, w \in SeriesSpreads }

\* rolling(window, center=True).max() and .min() at the 1-based row i: the
\* rows i - window/2 .. i + window/2 - 1, all inside the frame for the rows
\* the loop visits
rolling_max(col, i) ==
    LET rows == (i - window \div 2)..(i + window \div 2 - 1)
    IN  CHOOSE x \in {col[j] : j \in rows} : \A j \in rows : col[j] <= x

rolling_min(col, i) ==
    LET rows == (i - window \div 2)..(i + window \div 2 - 1)
    IN  CHOOSE x \in {col[j] : j \in rows} : \A j \in rows : col[j] >= x

\* sorted(list(set(levels))), ascending
RECURSIVE sorted(_)
sorted(S) ==
    IF S = {} THEN <<>>
    ELSE LET x == CHOOSE y \in S : \A z \in S : y <= z
         IN  <<x>> \o sorted(S \ {x})

\* sorted(list(set(levels)), reverse=True)
RECURSIVE sorted_reverse(_)
sorted_reverse(S) ==
    IF S = {} THEN <<>>
    ELSE LET x == CHOOSE y \in S : \A z \in S : y >= z
         IN  <<x>> \o sorted_reverse(S \ {x})

\* the slice [:5]
max_levels == 5

first_levels(q) == SubSeq(q, 1, Min(Len(q), max_levels))

\* the rows visited by range(window, len(df) - window), 1-based
visited_rows(df) == (window + 1)..(Len(df.high) - window)

\* _find_support_resistance with the slice applied to the ascending
\* resistance list
find_support_resistance_ascending(df) ==
    LET rows == visited_rows(df)
        resistance_levels ==
            {df.high[i] : i \in {j \in rows :
                                   df.high[j] = rolling_max(df.high, j)}}
        support_levels ==
            {df.low[i] : i \in {j \in rows :
                                  df.low[j] = rolling_min(df.low, j)}}
    IN  [support_levels |-> first_levels(sorted(support_levels)),
         resistance_levels |-> first_levels(sorted(resistance_levels))]

\* _find_support_resistance
find_support_resistance(df) ==
    LET rows == visited_rows(df)
        resistance_levels ==
            {df.high[i] : i \in {j \in rows :
                                   df.high[j] = rolling_max(df.high, j)}}
        support_levels ==
            {df.low[i] : i \in {j \in rows :
                                  df.low[j] = rolling_min(df.low, j)}}
    IN  [support_levels |-> first_levels(sorted(support_levels)),
         resistance_levels |->
             first_levels(sorted_reverse(resistance_levels))]

\* _find_support_resistance(df) applied once to a frame of the caller's
\* choice; the response keeps the frame and the two lists returned
FindSupportResistance(df) ==
    /\ last.op = "none"
    /\ LET levels == find_support_resistance(df)
       IN  last' = [NoResponse EXCEPT
                       !.op = "find_support_resistance",
                       !.klines = Value(df),
                       !.out = [NoOutcome EXCEPT !.status = "ok",
                                                 !.time = now],
                       !.data = [NoData EXCEPT !.technical = Some(levels)]]
    /\ UNCHANGED <<fetcher, now, prediction_cache, models, call, ncalls, nticks,
                   writes, nrecs>>

NextLevels == \E df \in LevelInputs : FindSupportResistance(df)

SpecLevels == Init /\ [][NextLevels]_vars

\* ------------------------------------------------ sentiment analysis alone
\* a text by the compound score _analyze_text_sentiment gives it
\* (thousandths); what a text source hands back: the texts it found, or a
\* failure of its HTTP call
TextScores == {-900, 0, 40, 800}

TextLists ==
    {<<>>} \cup {<<a>> : a \in TextScores}
           \cup {<<a, b>> : a \in TextScores, b \in TextScores}

SourceOutcomes ==
    {Raise("collaborator_failure")} \cup {Value(q) : q \in TextLists}

\* the slices texts[:100] of _fetch_news_data and texts[:50] of
\* _fetch_social_data
news_limit == 100

social_limit == 50

\* _fetch_news_data, _fetch_social_data: a failure of the source is logged
\* and the texts collected so far (none) are returned
fetch_texts(source, limit) ==
    IF is_exception(source) THEN <<>>
    ELSE SubSeq(source.v, 1, Min(Len(source.v), limit))

\* analyze_sentiment in which a call whose sources all failed raises
analyze_sentiment_failing(news, social) ==
    IF is_exception(news) /\ is_exception(social)
    THEN Raise("collaborator_failure")
    ELSE Value(aggregate_sentiment_results(
                   fetch_texts(news, news_limit)
                       \o fetch_texts(social, social_limit)))

\* analyze_sentiment(symbol) for the default sources
analyze_sentiment(news, social) ==
    Value(aggregate_sentiment_results(
              fetch_texts(news, news_limit)
                  \o fetch_texts(social, social_limit)))

\* GET /sentiment: analyze_sentiment applied once to what the two sources
\* hand back (the analyzer keeps no state between calls)
AnalyzeSentiment(news, social) ==
    /\ last.op = "none"
    /\ LET sentiment == analyze_sentiment(news, social)
       IN  last' = [NoResponse EXCEPT
                       !.op = "analyze_sentiment",
                       !.inp = [news |-> news, social |-> social],
                       !.out = IF is_exception(sentiment)
                               THEN Failure(sentiment.kind, FALSE, now)
                               ELSE [NoOutcome EXCEPT !.status = "ok",
                                                      !.time = now],
                       !.data = [NoData EXCEPT
                                   !.sentiment = absent_if_exception(sentiment)],
                       !.raised = [NoRaised EXCEPT
                                     !.sentiment = kind_of(sentiment)]]
    /\ UNCHANGED <<fetcher, now, prediction_cache, models, call, ncalls, nticks,
                   writes, nrecs>>

NextSentiment ==
    \E news \in SourceOutcomes, social \in SourceOutcomes :
        AnalyzeSentiment(news, social)

SpecSentiment == Init /\ [][NextSentiment]_vars

\* --------------------------------------------------- the scoring alone
\* indicator sets as _calculate_indicators returns them: all indicators of
\* the last bar, or none after a failure
IndicatorGrid ==
    { [rsi |-> rsi, macd |-> macd, macd_signal |-> 1, sma_20 |-> sma_20,
       sma_50 |-> 1020, bb_upper |-> 1200, bb_lower |-> 900, stoch_k |-> 50,
       stoch_d |-> 50, adx |-> adx, adx_pos |-> adx_pos, adx_neg |-> 20,
       volume_sma |-> 100] :
        rsi \in {25, 50, 75}, macd \in {-3, 5}, sma_20 \in {1000, 1050},
        adx \in {20, 30}, adx_pos \in {10, 30} }
      \cup { NoIndicators }

\* the klines behind the technical results that are scored
ScoreBarSamples ==
    { [bars |-> 168, close |-> c, close10 |-> 1000, volume |-> v,
       indicators |-> i, support |-> <<>>, resistance |-> <<>>] :
        c \in {950, 1030, 1100, 1250}, v \in {40, 100, 300},
        i \in IndicatorGrid }

ScoreKlinesOutcomes ==
    { Raise("collaborator_failure") } \cup { Value(b) : b \in ScoreBarSamples }

\* the sentiment results that are scored: unanimous texts at the ends of
\* the score range, mixed texts, none
ScoreSentimentOutcomes ==
    { Raise("collaborator_failure") }
      \cup { Value(aggregate_sentiment_results(q)) :
               q \in { <<1000>>, <<-1000>>, <<800, 0>> } }

\* the forecasts that are scored: none, or a record by its change (percent
\* times 100) and its confidence, up to the cap of 0.95
ScoreForecasts ==
    { Failure("model_failure", TRUE, 0) }
      \cup { [NoOutcome EXCEPT
                !.status = "ok",
                !.rec = [present |-> TRUE, prediction_change_percent |-> ch,
                         confidence |-> cf]] :
               ch \in {-3000, 500, 5000}, cf \in {500, 950} }

\* _calculate_recommendation_scores and _generate_final_recommendation
\* applied once to analysis data of the caller's choice (neither reads nor
\* writes state of the engine)
Score(sentiment, klines, pred, risk) ==
    /\ last.op = "none"
    /\ LET config == risk_configs[risk]
           data == gather_analysis_data(sentiment, pred, analyze(klines),
                                        Value([price |-> 1000]),
                                        Raise("collaborator_failure"))
           scores == calculate_recommendation_scores(data, config)
       IN  last' = [NoResponse EXCEPT
                       !.op = "score", !.inst = "engine", !.risk = risk,
                       !.klines = klines,
                       !.out = [NoOutcome EXCEPT !.status = "ok", !.time = now],
                       !.data = data,
                       !.reco = generate_final_recommendation(data, scores,
                                                              config)]
    /\ UNCHANGED <<fetcher, now, prediction_cache, models, call, ncalls, nticks,
                   writes, nrecs>>

\* the klines whose technical result is scored together with every
\* sentiment result and every forecast: none, and the ones with an RSI
\* signal, a strong trend and a high volume
ScoreKlinesWithAll ==
    { Raise("collaborator_failure") }
      \cup { Value(b) : b \in { x \in ScoreBarSamples :
                                  /\ x.indicators # NoIndicators
                                  /\ x.volume = 300
                                  /\ x.indicators.adx = 30
                                  /\ x.indicators.rsi # 50 } }

\* what is scored: every technical result alone, and the results above
\* with every sentiment result and forecast
ScoreInputs ==
    { <<Raise("collaborator_failure"), k, Failure("model_failure", TRUE, 0)>> :
        k \in ScoreKlinesOutcomes }
      \cup (ScoreSentimentOutcomes \X ScoreKlinesWithAll \X ScoreForecasts)

NextScore ==
    \E x \in ScoreInputs, r \in DOMAIN risk_configs :
        Score(x[1], x[2], x[3], r)

SpecScore == Init /\ [][NextScore]_vars

\* ------------------------------ forecast and recommendation requests mixed
\* the key both endpoints are asked for: the recommendation's forecast task
\* always asks for the 1d timeframe
SharedTimeframes == {"1d"}

SharedRiskLevels == {"medium"}

\* the gather of request c joins: the technical analysis answers or fails,
\* the price call answers, the text and ticker calls fail
ServiceGatherCompletes(c) ==
    /\ call[c].pc = "gathering"
    /\ \E k \in LiveKlinesOutcomes :
          GatherJoin(c, Raise("collaborator_failure"), k,
                     Value([price |-> 1000]), Raise("timeout"))

\* the running service: GET /predictions goes to the module-level
\* price_predictor of api/main.py ("api"), GET /recommendations to the
\* predictor the engine built for itself ("engine")
NextService ==
    \/ \E c \in Calls, s \in Symbols, tf \in SharedTimeframes :
           GetForecast(c, s, tf)
    \/ \E c \in Calls, s \in Symbols, r \in SharedRiskLevels :
           Recommend(c, s, r)
    \/ \E c \in Calls : FetchCompletes(c)
    \/ \E c \in Calls : ServiceGatherCompletes(c)
    \/ \E d \in TickSteps : Tick(d)

SpecService == Init /\ [][NextService]_vars

\* ------------------------------------------------ DataFetcher._rate_limit
\* steps of the event loop's clock, in milliseconds
LoopSteps == {50, 100}

\* request q enters _rate_limit (lines 44-48): it reads the clock and
\* last_request_time, and either goes to sleep for the rest of the delay or
\* runs on to line 50 without suspending
RateLimitEnter(q) ==
    /\ fetcher.wake[q] = -1
    /\ fetcher.entered < MaxRequests
    /\ LET current_time == fetcher.time
           time_since_last == current_time - fetcher.last_request_time
       IN  IF time_since_last < rate_limit_delay
           THEN fetcher' =
                  [fetcher EXCEPT
                     !.wake[q] = current_time
                                   + (rate_limit_delay - time_since_last),
                     !.entered = @ + 1]
           ELSE fetcher' =
                  [fetcher EXCEPT
                     !.last_request_time = current_time,
                     !.passed = Append(@, current_time),
                     !.entered = @ + 1]
    /\ UNCHANGED <<now, prediction_cache, models, call, last, ncalls, nticks,
                   writes, nrecs>>

\* the sleep of request q is over (line 48 returns): line 50 stores the
\* clock in last_request_time and the request goes on to its HTTP call
RateLimitResume(q) ==
    /\ fetcher.wake[q] # -1
    /\ fetcher.time >= fetcher.wake[q]
    /\ fetcher' = [fetcher EXCEPT
                     !.last_request_time = fetcher.time,
                     !.passed = Append(@, fetcher.time),
                     !.wake[q] = -1]
    /\ UNCHANGED <<now, prediction_cache, models, call, last, ncalls, nticks,
                   writes, nrecs>>

\* the clock of the event loop advances
LoopTick(d) ==
    /\ fetcher.ticks < MaxLoopTicks
    /\ fetcher' = [fetcher EXCEPT !.time = @ + d, !.ticks = @ + 1]
    /\ UNCHANGED <<now, prediction_cache, models, call, last, ncalls, nticks,
                   writes, nrecs>>

NextRateLimit ==
    \/ \E q \in Requests : RateLimitEnter(q)
    \/ \E q \in Requests : RateLimitResume(q)
    \/ \E d \in LoopSteps : LoopTick(d)

\* the requests sent through one DataFetcher
SpecRateLimit == Init /\ [][NextRateLimit]_vars

\* ======================================================== the properties
\* a step in which request c gets its answer from predict_price
Returned(c) == call[c].pc = "fetching" /\ call'[c].pc # "fetching"

\* the key request c asks for, and its cache entry before the step
KeyOf(c) == <<call[c].symbol, call[c].timeframe>>

PreEntry(c) == prediction_cache[call[c].inst][KeyOf(c)]

\* the validity windows and dampening factors as the specification states them
StatedWindow ==
    [tf \in {"1h", "4h", "1d", "7d"} |->
        CASE tf = "1h" -> 120 [] tf = "4h" -> 600
          [] tf = "1d" -> 1800 [] tf = "7d" -> 3600]

StatedFactor ==
    [tf \in {"1h", "4h", "1d", "7d"} |->
        CASE tf = "1h" -> 10 [] tf = "4h" -> 6
          [] tf = "1d" -> 4 [] tf = "7d" -> 3]

Between(x, a, b) == Min(a, b) <= x /\ x <= Max(a, b)

LastKey == <<last.symbol, last.timeframe>>

LastEntry == prediction_cache[last.inst][LastKey]

Computed == last.op = "forecast" /\ last.out.how = "computed"

\* C1 (as stated): once a record is stored for a key at time t, every later
\* call for that key at t' with t' - t below the key's validity window
\* returns a record identical to the stored one and does not invoke the
\* model, whatever the call fetched.
C1_CacheIdempotence ==
    [][\A c \in Calls :
        (/\ Returned(c)
         /\ PreEntry(c).present
         /\ now - PreEntry(c).time < StatedWindow[call[c].timeframe])
        => (/\ last'.out.status = "ok"
            /\ last'.out.rec = PreEntry(c).rec
            /\ ~last'.out.invoked)]_vars

\* C2: the read-check-compute-write sequence on the cache is serialized:
\* the model is only invoked by a request that finds, at that very moment,
\* no entry or an expired entry for its key; a successful invocation is
\* exactly one cache write stamped with the current time; so two writes of
\* one key are never less than the validity window apart, also when several
\* requests for the key are in flight together.
C2_SerializedRecompute ==
    /\ [](\A i \in Insts, k \in CacheKeys :
            LET w == writes[i][k]
            IN  /\ \A j \in 1..(Len(w) - 1) : w[j + 1] - w[j] >= StatedWindow[k[2]]
                /\ prediction_cache[i][k].present <=> Len(w) > 0
                /\ Len(w) > 0 => prediction_cache[i][k].time = w[Len(w)])
    /\ [][\A c \in Calls : Returned(c) =>
            LET e == PreEntry(c)
                k == KeyOf(c)
                i == call[c].inst
            IN  /\ last'.out.invoked =>
                     ~(e.present /\ now - e.time < StatedWindow[k[2]])
                /\ (last'.out.invoked /\ last'.out.status = "ok") <=>
                     (prediction_cache'[i][k] # e)
                /\ Len(writes'[i][k]) <= Len(writes[i][k]) + 1]_vars

\* two requests for one key were in flight together: the first to resume
\* computed and wrote, the second returned that record without the model
C2_Witness ==
    /\ last.op = "forecast" /\ last.slot = 2 /\ ncalls = 2
    /\ last.out.how = "cached"
    /\ Len(writes[last.inst][LastKey]) = 1
    /\ last.out.rec = LastEntry.rec

\* C3: a cached record is never returned at an age at or above its window;
\* a call that finds an expired entry and returns a record returns a
\* freshly computed one, which replaces the entry stamped with the time of
\* the call.
C3_CacheExpiry ==
    [][\A c \in Calls : Returned(c) =>
        LET e == PreEntry(c)
            w == StatedWindow[call[c].timeframe]
        IN  /\ last'.out.how = "cached" =>
                 (e.present /\ now - e.time < w /\ last'.out.rec = e.rec)
            /\ (e.present /\ now - e.time >= w /\ last'.out.status = "ok") =>
                 /\ last'.out.how = "computed"
                 /\ last'.out.invoked
                 /\ prediction_cache'[call[c].inst][KeyOf(c)] =
                        [present |-> TRUE, rec |-> last'.out.rec, time |-> now]]_vars

\* a refresh at an age of exactly the validity window
C3_Witness ==
    /\ Computed /\ last.out.prev # -1
    /\ LET w == writes[last.inst][LastKey]
       IN  /\ Len(w) = 2
           /\ w[2] - w[1] = StatedWindow[last.timeframe]
           /\ w[2] = now
    /\ LastEntry.rec = last.out.rec

\* C4: the cache entry of a key changes only in the step in which a request
\* for that very key gets its answer; every other entry is left as it was.
C4_DifferentKeysFrame ==
    [][\A i \in Insts, k \in CacheKeys :
        prediction_cache'[i][k] # prediction_cache[i][k] =>
            \E c \in Calls : /\ Returned(c)
                             /\ call[c].inst = i
                             /\ KeyOf(c) = k]_vars

\* a request has just computed its key while another key holds an entry
C4_Witness ==
    /\ Computed
    /\ \E k \in CacheKeys : /\ k # LastKey
                            /\ prediction_cache[last.inst][k].present

\* C5: on a recompute over a cached record the stored predicted_price lies
\* between the dampened candidate and the previous cached predicted_price.
C5_SmoothingBounds ==
    (Computed /\ last.out.prev # -1) =>
        Between(last.out.rec.predicted_price, last.out.cand, last.out.prev)

\* a blend strictly inside the interval
C5_Witness ==
    /\ Computed /\ last.out.prev # -1
    /\ last.out.rec.predicted_price # last.out.cand
    /\ last.out.rec.predicted_price # last.out.prev

\* C6 (as stated): every computed record, first computation or refresh,
\* has its predicted_price between current_price and the model's
\* inverse-scaled prediction.
C6_DampenedTowardCurrent ==
    Computed =>
        Between(last.out.rec.predicted_price,
                last.out.rec.current_price, last.out.raw)

\* C6 (amended): on a first computation predicted_price lies between
\* current_price and the model's prediction; on a refresh it lies within
\* the range spanned by current_price, the model's prediction and the
\* previous cached predicted_price.
C6_DampenedOrBlended ==
    Computed =>
        LET p == last.out.rec.predicted_price
            cur == last.out.rec.current_price
            raw == last.out.raw
            prev == last.out.prev
        IN  IF prev = -1
            THEN Between(p, cur, raw)
            ELSE /\ Min(Min(cur, raw), prev) <= p
                 /\ p <= Max(Max(cur, raw), prev)

\* a refresh whose blended price lies outside [current_price, prediction]
C6_Witness ==
    /\ Computed /\ last.out.prev # -1
    /\ ~Between(last.out.rec.predicted_price,
                last.out.rec.current_price, last.out.raw)

\* C7: for the raw change of every computation the magnitude of the
\* dampened change does not increase along 1h, 4h, 1d, 7d, and a first
\* computation stores current_price + raw_change * factor exactly.
C7_DampeningMonotone ==
    Computed =>
        LET cur == last.out.rec.current_price
            rc == last.out.raw - cur
        IN  /\ Abs(dampened_change(rc, "1h")) >= Abs(dampened_change(rc, "4h"))
            /\ Abs(dampened_change(rc, "4h")) >= Abs(dampened_change(rc, "1d"))
            /\ Abs(dampened_change(rc, "1d")) >= Abs(dampened_change(rc, "7d"))
            /\ last.out.prev = -1 =>
                 last.out.rec.predicted_price * 10 =
                     cur * 10 + rc * StatedFactor[last.timeframe]

\* a first computation with a non-zero raw change on the longest timeframe
C7_Witness ==
    /\ Computed /\ last.out.prev = -1
    /\ last.out.raw # last.out.rec.current_price
    /\ last.timeframe = "7d"

\* C8: when a fresh computation is needed and the model capability fails
\* (fit or predict raises), the call fails, returns no record, and the
\* cache is left exactly as it was.
C8_ModelFailurePropagates ==
    [][\A c \in Calls :
        (/\ Returned(c)
         /\ ~(PreEntry(c).present
              /\ now - PreEntry(c).time < StatedWindow[call[c].timeframe])
         /\ (last'.inp.fit = FALSE \/ last'.inp.mout = -1))
        => (/\ last'.out.status = "error"
            /\ last'.out.rec = NoRecord
            /\ prediction_cache' = prediction_cache)]_vars

\* the model failed on a request whose key holds an expired record
C8_Witness ==
    /\ last.op = "forecast" /\ last.inp.mout = -1
    /\ last.out.error = "predict_failed"
    /\ LastEntry.present
    /\ now - LastEntry.time >= StatedWindow[last.timeframe]

Joined(c) == call[c].pc = "gathering" /\ call'[c].pc = "idle"

Recommended == last.op = "recommend" /\ last.out.status = "ok"

\* C10: for a valid risk level and whichever of the gathered calls fail,
\* generate_recommendation returns a recommendation; a failed component has
\* a component score of exactly 0, and overall_score is the weighted sum of
\* the scores of the components that did not fail.
C10_PartialFailureTolerance ==
    /\ [][\A c \in Calls : Joined(c) =>
            /\ last'.op = "recommend" /\ last'.out.status = "ok"
            /\ last'.reco.present
            /\ last'.reco.action \in {"buy", "sell", "hold"}
            /\ call[c].pred.status # "ok" =>
                 (/\ ~last'.data.prediction.some
                  /\ last'.reco.scores.prediction_score = 0)]_vars
    /\ [](Recommended =>
            LET sc == last.reco.scores
                cfg == risk_configs[last.risk]
                part(some, score, weight) == IF some THEN score * weight ELSE 0
            IN  /\ last.raised.sentiment # "none" => sc.sentiment_score = 0
                /\ last.raised.technical # "none" => sc.technical_score = 0
                /\ last.raised.prediction # "none" => sc.prediction_score = 0
                /\ sc.overall_score =
                       part(last.raised.sentiment = "none",
                            sc.sentiment_score, cfg.sentiment_weight)
                     + part(last.raised.technical = "none",
                            sc.technical_score, cfg.technical_weight)
                     + part(last.raised.prediction = "none",
                            sc.prediction_score, cfg.prediction_weight))

\* sentiment, technical analysis, price and ticker failed and the forecast
\* did not: overall_score is prediction_score * prediction_weight
C10_Witness ==
    /\ Recommended
    /\ last.raised.sentiment # "none" /\ last.raised.technical # "none"
    /\ last.raised.price # "none" /\ last.raised.ticker # "none"
    /\ last.raised.prediction = "none"
    /\ last.reco.scores.prediction_score # 0
    /\ last.reco.scores.overall_score =
           last.reco.scores.prediction_score
             * risk_configs[last.risk].prediction_weight

\* the error kinds that say the request cannot be answered, as against the
\* failure of a collaborator
Unanswerable == {"insufficient_data", "no_data", "unsupported_timeframe"}

\* C11 (as stated): when the technical analysis or the forecast of a
\* recommendation raises an insufficient-data, no-history or
\* unknown-timeframe error, generate_recommendation hands that error to its
\* caller and returns no recommendation; only collaborator failures become
\* absent components.
C11_OnlyCollaboratorFailuresAbsent ==
    (/\ last.op = "recommend"
     /\ \/ last.raised.technical \in Unanswerable
        \/ last.raised.prediction \in Unanswerable)
    => (/\ last.out.status = "error"
        /\ last.out.error \in Unanswerable
        /\ ~last.reco.present)

\* a recommendation built by _generate_final_recommendation, reached through
\* generate_recommendation or applied directly
Finalized == last.op \in {"recommend", "finalize"} /\ last.reco.present

\* min_confidence of the risk profiles as the specification states them
\* (thousandths)
StatedMinConfidence ==
    [r \in {"low", "medium", "high"} |->
        CASE r = "low" -> 800 [] r = "medium" -> 600 [] r = "high" -> 400]

\* min(0.95, |overall_score| + 0.1) in hundred-millionths
RawConfidence ==
    Min(95000000, Abs(last.reco.scores.overall_score) + 10000000)

\* C12: whenever min(0.95, |overall_score| + 0.1) is below the risk
\* profile's min_confidence the recommendation is hold with confidence
\* exactly 0.5 and without target price and stop loss; no buy or sell
\* recommendation has a confidence below its profile's min_confidence.
C12_MinConfidenceFloor ==
    Finalized =>
        LET floor == StatedMinConfidence[last.risk] * 100000
        IN  /\ RawConfidence < floor =>
                 /\ last.reco.action = "hold"
                 /\ last.reco.confidence = 50000000
                 /\ ~last.reco.target_price.some
                 /\ ~last.reco.stop_loss.some
            /\ last.reco.action \in {"buy", "sell"} =>
                 last.reco.confidence >= floor

\* risk level low with an overall score of 0.25: the decided action is
\* forced to hold, the confidence to 0.5
C12_Witness ==
    /\ Finalized /\ last.risk = "low"
    /\ last.reco.scores.overall_score = 25000000
    /\ last.data.price.some
    /\ last.reco.action = "hold" /\ last.reco.confidence = 50000000

\* C13: before the minimum-confidence check the action is buy exactly when
\* overall_score > 0.3, sell exactly when overall_score < -0.3 and hold
\* otherwise (so at exactly 0.3 and -0.3); the returned action is that
\* action unless the minimum-confidence check forces hold.
C13_DecisionThresholds ==
    Finalized =>
        LET o == last.reco.scores.overall_score
            floor == StatedMinConfidence[last.risk] * 100000
        IN  /\ last.reco.decided = "buy" <=> o > 30000000
            /\ last.reco.decided = "sell" <=> o < -30000000
            /\ last.reco.decided = "hold" <=> (-30000000 <= o /\ o <= 30000000)
            /\ RawConfidence >= floor => last.reco.action = last.reco.decided

\* an overall score of exactly 0.3 under risk level high (confidence 0.4,
\* not below the floor) resolves to hold
C13_Witness ==
    /\ Finalized /\ last.risk = "high"
    /\ last.reco.scores.overall_score = 30000000
    /\ last.reco.decided = "hold" /\ last.reco.action = "hold"
    /\ last.reco.confidence = 40000000

Traded == last.reco.action \in {"buy", "sell"}

\* C14 (as stated): target_price and stop_loss are both present exactly
\* when the action is buy or sell and the current price was obtained, are
\* never 0, and risk_reward_ratio is present only when current price, target
\* and stop loss are all present.
C14_TargetsIffPriceObtained ==
    Finalized =>
        /\ last.reco.target_price.some <=> (Traded /\ last.data.price.some)
        /\ last.reco.stop_loss.some <=> (Traded /\ last.data.price.some)
        /\ last.reco.target_price.some => last.reco.target_price.v # 0
        /\ last.reco.stop_loss.some => last.reco.stop_loss.v # 0
        /\ last.reco.risk_reward_ratio.some =>
             /\ last.data.price.some
             /\ last.reco.target_price.some /\ last.reco.stop_loss.some

\* C14 (amended): target_price and stop_loss are both present exactly when
\* the action is buy or sell and a current price other than zero was
\* obtained (a price of 0 counts as no price); they are never 0, and
\* risk_reward_ratio is present only when a non-zero current price, target
\* and stop loss are all present.
C14_TargetsIffUsablePrice ==
    Finalized =>
        LET priced == last.data.price.some /\ last.data.price.v.price # 0
        IN  /\ last.reco.target_price.some <=> (Traded /\ priced)
            /\ last.reco.stop_loss.some <=> (Traded /\ priced)
            /\ last.reco.target_price.some => last.reco.target_price.v # 0
            /\ last.reco.stop_loss.some => last.reco.stop_loss.v # 0
            /\ last.reco.risk_reward_ratio.some =>
                 /\ priced
                 /\ last.reco.target_price.some /\ last.reco.stop_loss.some

\* a sell recommendation for which the price call returned a price of 0:
\* no targets and no ratio
C14_Witness ==
    /\ Finalized /\ last.reco.action = "sell"
    /\ last.data.price.some /\ last.data.price.v.price = 0
    /\ ~last.reco.target_price.some /\ ~last.reco.stop_loss.some
    /\ ~last.reco.risk_reward_ratio.some

\* C15: every recommendation has a confidence in [0, 0.95]; every forecast
\* record (returned, cached, or used by a recommendation) and every
\* sentiment record has a confidence in [0, 1].
C15_ConfidenceRanges ==
    /\ Finalized =>
         (0 <= last.reco.confidence /\ last.reco.confidence <= 95000000)
    /\ last.data.prediction.some =>
         last.data.prediction.v.confidence \in 0..1000
    /\ last.data.sentiment.some =>
         last.data.sentiment.v.confidence \in 0..1000
    /\ last.out.rec.present => last.out.rec.confidence \in 0..1000
    /\ \A i \in Insts, k \in CacheKeys :
         prediction_cache[i][k].present =>
             prediction_cache[i][k].rec.confidence \in 0..1000

\* a recommendation whose forecast carries the boosted confidence at its
\* cap of 0.95, whose sentiment record has confidence 1.0 and whose own
\* confidence is neither the forced 0.5 nor 0
C15_Witness ==
    /\ Recommended
    /\ last.data.prediction.some
    /\ last.data.prediction.v.confidence = 950
    /\ last.data.sentiment.some
    /\ last.data.sentiment.v.confidence = 1000
    /\ last.reco.confidence \notin {0, 50000000}

\* the risk-level names of the interface
StatedRiskLevels == {"low", "medium", "high"}

\* C16: a recommendation request with a risk-level name outside low, medium,
\* high fails with an error in the step that receives it: no task is
\* started (no collaborator is invoked), and the forecast cache and the
\* loaded models are unchanged; no request slot and no recommendation ever
\* carries such a name.
C16_InvalidRiskRejected ==
    /\ [][nrecs' # nrecs =>
            \/ \E c \in Calls :
                  /\ call[c].pc = "idle" /\ call'[c].pc = "fetching"
                  /\ call'[c].risk \in StatedRiskLevels
            \/ /\ last'.op = "recommend"
               /\ last'.risk \notin StatedRiskLevels
               /\ last'.out.status = "error"
               /\ last'.out.error = "invalid_risk_level"
               /\ ~last'.reco.present
               /\ call' = call
               /\ prediction_cache' = prediction_cache
               /\ models' = models]_vars
    /\ [](\A c \in Calls : call[c].risk \in StatedRiskLevels \cup {"none"})
    /\ []((last.op = "recommend" /\ last.risk \notin StatedRiskLevels) =>
            (last.out.status = "error" /\ ~last.reco.present))

\* the request with risk level extreme was answered with the error
C16_Witness ==
    /\ last.op = "recommend" /\ last.risk = "extreme"
    /\ last.out.error = "invalid_risk_level"
    /\ nrecs = 1
    /\ \A c \in Calls : call[c].pc = "idle"

\* request slot c holds a recommendation request that has not returned
Recommending(c) == call[c].pc # "idle" /\ call[c].risk # "none"

\* C17: a recommendation request with a valid risk level starts its calls
\* in one step and joins them in one step; when every awaited call
\* completes, with a value, a failure or a timeout, the request returns a
\* recommendation; a timed-out component is absent and scores 0, like a
\* failed one.
C17_RecommendTerminates ==
    /\ \A c \in Calls :
         Recommending(c) ~>
             (/\ call[c].pc = "idle"
              /\ last.op = "recommend" /\ last.slot = c
              /\ last.out.status = "ok" /\ last.reco.present)
    /\ [][\A c \in Calls :
            (call'[c] # call[c] /\ (Recommending(c) \/ Recommending(c)')) =>
                \/ call[c].pc = "idle" /\ call'[c].pc = "fetching"
                \/ call[c].pc = "fetching" /\ call'[c].pc = "gathering"
                \/ call[c].pc = "gathering" /\ call'[c].pc = "idle"]_vars
    /\ [](Recommended =>
            /\ last.raised.sentiment \in {"timeout", "collaborator_failure"}
                 => (/\ last.data.sentiment = None
                     /\ last.reco.scores.sentiment_score = 0)
            /\ last.raised.price \in {"timeout", "collaborator_failure"}
                 => last.data.price = None
            /\ last.raised.ticker \in {"timeout", "collaborator_failure"}
                 => last.data.ticker = None)

\* a recommendation returned although the sentiment call and the ticker
\* call timed out
C17_Witness ==
    /\ Recommended
    /\ last.raised.sentiment = "timeout" /\ last.raised.ticker = "timeout"
    /\ last.reco.scores.sentiment_score = 0
    /\ \A c \in Calls : call[c].pc = "idle"

\* the signal values that make up the strong bucket
StrongBucket == {"strong_bullish", "strong_bearish", "very_strong"}

\* the technical result is present, its trend is not sideways and its
\* trend_strength signal is strong or very_strong
StrongTrend ==
    /\ last.data.technical.some
    /\ last.data.technical.v.trend # "sideways"
    /\ "trend_strength" \in DOMAIN last.data.technical.v.signals
    /\ last.data.technical.v.signals["trend_strength"]
           \in {"strong", "very_strong"}

\* the technical result is present with at least two signals in the strong
\* bucket
TwoStrongSignals ==
    /\ last.data.technical.some
    /\ \E m, n \in DOMAIN last.data.technical.v.signals :
          /\ m # n
          /\ last.data.technical.v.signals[m] \in StrongBucket
          /\ last.data.technical.v.signals[n] \in StrongBucket

\* the sentiment result is present with confidence above 0.8
ConfidentSentiment ==
    /\ last.data.sentiment.some
    /\ last.data.sentiment.v.confidence > 800

Analyzed == last.op = "analyze" /\ ~is_exception(last.klines)

\* C19: analyze fails with the insufficient-data error for every bar
\* sequence shorter than 50 bars, and for every sequence of at least 50 bars
\* it returns a result with indicators, signals, support, resistance, trend
\* and strength.
C19_AnalyzeMinimumBars ==
    Analyzed =>
        /\ last.klines.v.bars < 50 =>
              /\ last.out.status = "error"
              /\ last.out.error = "insufficient_data"
        /\ last.klines.v.bars >= 50 =>
              /\ last.out.status = "ok"
              /\ last.data.technical.some
              /\ DOMAIN last.data.technical.v =
                    {"indicators", "signals", "support_levels",
                     "resistance_levels", "trend", "strength"}

\* _determine_trend ran, directly or within analyze, on an empty indicator
\* set
TrendFromNoIndicators ==
    /\ last.op \in {"analyze", "determine_trend"}
    /\ last.out.status = "ok"
    /\ last.data.technical.v.indicators = NoIndicators

\* the trend and strength that the 10-period momentum alone gives
MomentumOnlyTrend ==
    LET df == last.klines.v
        change == (df.close - df.close10) * 100
    IN  IF change > 2 * df.close10
        THEN [trend |-> "bullish", strength |-> 1000]
        ELSE IF change < -2 * df.close10
        THEN [trend |-> "bearish", strength |-> 1000]
        ELSE [trend |-> "sideways", strength |-> 0]

\* C20: when no trend factor is evaluable, as with an empty indicator set,
\* the trend is unknown with strength 0; a factor whose indicators are
\* missing is not counted: with an empty indicator set and fewer than ten
\* bars the result is unknown and 0, and with ten bars or more it is unknown
\* and 0 or what the momentum factor alone gives.
C20_UnknownTrendWithoutFactors ==
    TrendFromNoIndicators =>
        LET t == [trend |-> last.data.technical.v.trend,
                  strength |-> last.data.technical.v.strength]
            unknown == [trend |-> "unknown", strength |-> 0]
        IN  IF last.klines.v.bars < 10
            THEN t = unknown
            ELSE t \in {unknown, MomentumOnlyTrend}

\* _find_support_resistance returned its two lists
LevelsFound == last.op = "find_support_resistance"

SupportLevels == last.data.technical.v.support_levels

ResistanceLevels == last.data.technical.v.resistance_levels

\* C21: whenever the support list and the resistance list returned for a
\* bar series are both non-empty, each support level is strictly less than
\* each resistance level.
C21_SupportBelowResistance ==
    LevelsFound =>
        \A i \in 1..Len(SupportLevels), j \in 1..Len(ResistanceLevels) :
            SupportLevels[i] < ResistanceLevels[j]

\* the distinct highs (lows) of the visited bars that equal the maximum
\* (minimum) of their centered window
ResistanceCandidates ==
    LET df == last.klines.v
    IN  { df.high[i] : i \in { j \in visited_rows(df) :
            \A k \in (j - 10)..(j + 9) : df.high[k] <= df.high[j] } }

SupportCandidates ==
    LET df == last.klines.v
    IN  { df.low[i] : i \in { j \in visited_rows(df) :
            \A k \in (j - 10)..(j + 9) : df.low[k] >= df.low[j] } }

SentimentAnalyzed == last.op = "analyze_sentiment"

TextsAvailable ==
    (IF is_exception(last.inp.news) THEN 0 ELSE Len(last.inp.news.v))
        + (IF is_exception(last.inp.social) THEN 0 ELSE Len(last.inp.social.v))

\* C23: with no texts available, because nothing was fetched or because
\* every source failed, analyze_sentiment does not fail and returns score
\* 0.0, label neutral, confidence 0.0, sources_analyzed 0 and all three
\* counts 0; with texts the three counts sum to the number of texts.
C23_EmptySentimentNeutral ==
    SentimentAnalyzed =>
        /\ TextsAvailable = 0 =>
              /\ last.out.status = "ok"
              /\ last.data.sentiment.some
              /\ last.data.sentiment.v.sentiment_score = 0
              /\ last.data.sentiment.v.sentiment_label = "neutral"
              /\ last.data.sentiment.v.confidence = 0
              /\ last.data.sentiment.v.sources_analyzed = 0
              /\ last.data.sentiment.v.positive_count = 0
              /\ last.data.sentiment.v.negative_count = 0
              /\ last.data.sentiment.v.neutral_count = 0
        /\ TextsAvailable > 0 =>
              /\ last.out.status = "ok"
              /\ last.data.sentiment.v.positive_count
                   + last.data.sentiment.v.negative_count
                   + last.data.sentiment.v.neutral_count = TextsAvailable

\* both sources failed and the neutral record was returned
C23_Witness ==
    /\ SentimentAnalyzed
    /\ is_exception(last.inp.news) /\ is_exception(last.inp.social)
    /\ last.out.status = "ok"
    /\ last.data.sentiment.v.sentiment_label = "neutral"
    /\ last.data.sentiment.v.sources_analyzed = 0

\* the scoring ran on a technical result
Scored == last.op = "score" /\ last.data.technical.some

ScoredSignals == last.data.technical.v.signals

\* the signal of a factor, "missing" when the signal set has none
SignalOf(name) ==
    IF name \in DOMAIN ScoredSignals THEN ScoredSignals[name] ELSE "missing"

\* the per-bucket points as the specification states them (tenths)
StatedPoints(name) ==
    LET s == SignalOf(name)
    IN  CASE name = "rsi" ->
               (IF s = "oversold" THEN 3 ELSE IF s = "overbought" THEN -3 ELSE 0)
          [] name = "macd" ->
               (IF s = "bullish" THEN 2 ELSE IF s = "bearish" THEN -2 ELSE 0)
          [] name = "ma_trend" ->
               (CASE s = "strong_bullish" -> 4 [] s = "weak_bullish" -> 2
                  [] s = "weak_bearish" -> -2 [] s = "strong_bearish" -> -4
                  [] OTHER -> 0)
          [] name = "bollinger" ->
               (IF s = "oversold" THEN 2 ELSE IF s = "overbought" THEN -2 ELSE 0)
          [] name = "trend_strength" ->
               (IF s \in {"strong", "very_strong"}
                THEN (IF last.data.technical.v.trend = "bullish" THEN 3
                      ELSE IF last.data.technical.v.trend = "bearish" THEN -3
                      ELSE 0)
                ELSE 0)

FactorSignals == {"rsi", "macd", "ma_trend", "bollinger", "trend_strength"}

\* the running sum of the five factors, before the volume adjustment
RECURSIVE SumPoints(_)
SumPoints(names) ==
    IF names = {} THEN 0
    ELSE LET n == CHOOSE x \in names : TRUE
         IN  StatedPoints(n) + SumPoints(names \ {n})

RunningSum == SumPoints(FactorSignals)

\* the volume adjustment: only on a strictly positive running sum
VolumeAdjustment ==
    IF RunningSum > 0 /\ SignalOf("volume") = "high" THEN 1
    ELSE IF RunningSum > 0 /\ SignalOf("volume") = "low" THEN -1 ELSE 0

\* the factors whose signal is in the signal set
EvaluatedFactors == {n \in FactorSignals : n \in DOMAIN ScoredSignals}

\* C24: technical_score is the sum of the per-bucket points, volume
\* adjustment included, divided by the number of evaluated factors among
\* RSI, MACD, moving-average trend, Bollinger and trend/strength; a factor
\* whose signal is missing from the signal set is not counted in the
\* divisor.
C24_TechnicalScoreDivisor ==
    Scored =>
        last.reco.scores.technical_score =
            IF EvaluatedFactors = {} THEN 0
            ELSE DivT((RunningSum + VolumeAdjustment) * 100000,
                      Cardinality(EvaluatedFactors))

\* C25: the volume adjustment changes the running sum of the technical
\* factors only when that sum is strictly positive, where a high volume
\* signal adds 0.1 and a low one subtracts 0.1 (the score being the sum over
\* the five factors the code counts); when the running sum is zero or
\* negative the score is the same for every value of the volume signal.
C25_VolumeAdjustment ==
    Scored =>
        /\ (RunningSum > 0 /\ SignalOf("volume") = "high") =>
              last.reco.scores.technical_score
                  = DivT((RunningSum + 1) * 100000, 5)
        /\ (RunningSum > 0 /\ SignalOf("volume") = "low") =>
              last.reco.scores.technical_score
                  = DivT((RunningSum - 1) * 100000, 5)
        /\ (RunningSum <= 0 \/ SignalOf("volume") \notin {"high", "low"}) =>
              last.reco.scores.technical_score = DivT(RunningSum * 100000, 5)

\* a negative running sum with a high volume signal: no adjustment
C25_Witness ==
    /\ Scored
    /\ RunningSum < 0
    /\ SignalOf("volume") = "high"
    /\ last.reco.scores.technical_score = DivT(RunningSum * 100000, 5)

\* analyze returned signals for klines whose sma_20 and sma_50 are both
\* available
AveragesAvailable ==
    /\ Analyzed /\ last.out.status = "ok"
    /\ {"sma_20", "sma_50"} \subseteq DOMAIN last.klines.v.indicators

\* C26: whenever sma_20 and sma_50 are both available, ma_trend is
\* strong_bullish or weak_bullish if the latest close is above sma_20 and
\* strong_bearish or weak_bearish if it is below, and the strong bucket is
\* chosen exactly when sma_20 and sma_50 are ordered in the same direction
\* as the close and sma_20.
C26_MovingAverageTrend ==
    AveragesAvailable =>
        LET close == last.klines.v.close
            sma_20 == last.klines.v.indicators.sma_20
            sma_50 == last.klines.v.indicators.sma_50
            signals == last.data.technical.v.signals
        IN  /\ "ma_trend" \in DOMAIN signals
            /\ close > sma_20 =>
                  /\ signals.ma_trend \in {"strong_bullish", "weak_bullish"}
                  /\ signals.ma_trend = "strong_bullish" <=> sma_20 > sma_50
            /\ close < sma_20 =>
                  /\ signals.ma_trend \in {"strong_bearish", "weak_bearish"}
                  /\ signals.ma_trend = "strong_bearish" <=> sma_20 < sma_50

\* C27: under risk level low no recommendation is buy or sell: for every
\* sentiment record, signal set, trend and forecast with confidence at most
\* 0.95, |overall_score| stays below 0.7, and the result is hold with
\* confidence 0.5 and no price targets.
C27_LowRiskAlwaysHolds ==
    (last.op \in {"score", "recommend"} /\ last.reco.present
       /\ last.risk = "low") =>
        /\ Abs(last.reco.scores.overall_score) < 70000000
        /\ last.reco.action = "hold"
        /\ last.reco.confidence = 50000000
        /\ last.reco.target_price = None
        /\ last.reco.stop_loss = None

\* a low-risk request whose sentiment, technical result and forecast all
\* point up as far as they can: overall_score above 0.6, and still hold
C27_Witness ==
    /\ last.op = "score" /\ last.risk = "low"
    /\ last.data.sentiment.some
    /\ last.data.sentiment.v.sentiment_score = 1000
    /\ last.data.sentiment.v.confidence = 1000
    /\ last.data.prediction.some
    /\ last.data.prediction.v.confidence = 950
    /\ last.data.technical.some
    /\ last.reco.scores.technical_score >= 240000
    /\ last.reco.scores.overall_score > 60000000
    /\ last.reco.decided = "buy"
    /\ last.reco.action = "hold"

\* the cache entry behind the forecasts of one endpoint for (symbol, 1d)
ForecastEntry(inst, symbol) == prediction_cache[inst][<<symbol, "1d">>]

\* C28: there is one forecast cache per (symbol, timeframe) key in the
\* running service: the record recommend uses for (symbol, 1d) and the
\* record a direct forecast call returns for that key are the same record
\* whenever both were stored inside one validity window.
C28_OneCachePerKey ==
    \A s \in Symbols :
        LET direct == ForecastEntry("api", s)
            used == ForecastEntry("engine", s)
        IN  (/\ direct.present /\ used.present
             /\ Abs(direct.time - used.time) < cache_duration_get("1d"))
                => direct.rec = used.rec

\* C29: for any two requests sent through the same DataFetcher, calls
\* issued concurrently included, the moments at which they leave
\* _rate_limit for the HTTP call are at least rate_limit_delay (100 ms)
\* apart.
C29_RateLimitSpacing ==
    \A i, j \in 1..Len(fetcher.passed) :
        i < j => fetcher.passed[j] - fetcher.passed[i] >= 100

\* C30: whenever price targets are present they bracket the current price
\* on the correct sides, stop_loss < price < target_price for buy and
\* target_price < price < stop_loss for sell, and the risk/reward ratio is
\* take_profit_percent / stop_loss_percent of the selected risk profile,
\* whatever the current price.
C30_TargetsBracketPrice ==
    (Finalized /\ last.reco.target_price.some /\ last.reco.stop_loss.some) =>
        LET price == last.data.price.v.price
            target_price == last.reco.target_price.v
            stop_loss == last.reco.stop_loss.v
            config == risk_configs[last.risk]
        IN  /\ last.reco.action \in {"buy", "sell"}
            /\ last.reco.action = "buy" =>
                  (stop_loss < price /\ price < target_price)
            /\ last.reco.action = "sell" =>
                  (target_price < price /\ price < stop_loss)
            /\ last.reco.risk_reward_ratio =
                  Some(DivT(config.take_profit_percent * 1000,
                            config.stop_loss_percent))

\* a sell at a price of 25000 under the high profile: target 18750, stop
\* 28000, ratio 2.083
C30_Witness ==
    /\ last.op = "finalize" /\ last.reco.present
    /\ last.risk = "high"
    /\ last.reco.action = "sell"
    /\ last.reco.target_price = Some(18750)
    /\ last.reco.stop_loss = Some(28000)
    /\ last.data.price.v.price = 25000
    /\ last.reco.risk_reward_ratio = Some(2083)

====
